---- MODULE Spec2Model ----
(***************************************************************************)
(* Model of the MCP integration layer of aleostudio/ai-agent:              *)
(*   app/mcp/client.py   MCPServerConfig, MCPClient                        *)
(*   app/mcp/manager.py  schema translation, MCPLangChainTool,             *)
(*                       MCPToolManager                                    *)
(* Python strings are modelled as sequences of one-character strings, so   *)
(* that "in", str.split and f-string concatenation are computed, not       *)
(* assumed.  One manager runs a single logical flow: every manager method  *)
(* is one action, the awaited server behaviour is the action's input.      *)
(***************************************************************************)
EXTENDS Integers, Sequences, FiniteSets, TLC

VARIABLES
    input_configs,  \* the list handed to MCPToolManager.__init__
    clients,        \* MCPToolManager.clients: insertion-ordered dict name -> MCPClient
    registry,       \* MCPToolManager._langchain_tools
    initialized,    \* MCPToolManager._initialized
    orphans,        \* MCPClient objects the manager created and no longer references
    last,           \* the last method invoked: arguments, outcome, calls it issued
    probe,          \* input and output of a pure function under test
    client,         \* an MCPClient its caller drives directly, without a manager
    objects,        \* the MCPClient objects concurrent tasks hold references to
    tasks,          \* the coroutines on the event loop: where each one is suspended
    held,           \* the list a caller got from get_langchain_tools and kept
    max_messages,   \* SimpleAgent.max_memory_messages, ShortTermMemoryManager.max_messages
    user_memories,  \* SimpleAgent.user_memories
    memories,       \* ShortTermMemoryManager._memories
    threads         \* the threads inside SimpleAgent.interact: where each one is

\* the MCP classes and their callers, which no method of the memory touches
mcp_vars == <<input_configs, clients, registry, initialized, orphans, last, probe, client,
              objects, tasks, held>>

vars == <<input_configs, clients, registry, initialized, orphans, last, probe, client,
          objects, tasks, held, max_messages, user_memories, memories, threads>>

----------------------------------------------------------------------------
(* Strings *)

SEP == <<"_", "_">>

\* position of the first "__" in s, 0 when there is none
find_sep(s) ==
    LET I == {i \in 1..(Len(s) - 1) : s[i] = "_" /\ s[i + 1] = "_"}
    IN  IF I = {} THEN 0 ELSE CHOOSE i \in I : \A j \in I : i <= j

\* position of the last "__" in s, 0 when there is none
find_sep_last(s) ==
    LET I == {i \in 1..(Len(s) - 1) : s[i] = "_" /\ s[i + 1] = "_"}
    IN  IF I = {} THEN 0 ELSE CHOOSE i \in I : \A j \in I : i >= j

\* "__" in tool_name
has_sep(s) == find_sep(s) # 0

\* a split at the last separator (str.rsplit), not the code's
split_last(s) ==
    LET i == find_sep_last(s)
    IN  <<SubSeq(s, 1, i - 1), SubSeq(s, i + 2, Len(s))>>

\* tool_name.split("__", 1), for a name that holds the separator
split_first(s) ==
    LET i == find_sep(s)
    IN  <<SubSeq(s, 1, i - 1), SubSeq(s, i + 2, Len(s))>>

\* a name joined with a single underscore (not the code's)
qualified_name_single(server_name, tool_name) == server_name \o <<"_">> \o tool_name

\* f"{server_name}__{mcp_tool.name}"
qualified_name(server_name, tool_name) == server_name \o SEP \o tool_name

----------------------------------------------------------------------------
(* Schema translation: _json_schema_to_pydantic_field, _create_tool_input_model *)

\* A property schema's "type" is absent, a string, or a list of strings:
\*   [k |-> "absent" | "str" | "list", v |-> the string, vs |-> the list's members]
\* its "default" is absent ("...") or a value.
Ellipsis == "..."

type_mapping_get(json_type) ==
    CASE json_type = "string"  -> "str"
      [] json_type = "integer" -> "int"
      [] json_type = "number"  -> "float"
      [] json_type = "boolean" -> "bool"
      [] json_type = "array"   -> "list"
      [] json_type = "object"  -> "dict"
      [] OTHER                 -> "str"

\* (python_type, Field(default=default)); a "type" given as a list is unhashable, so
\* type_mapping.get raises TypeError before the nullable handling is reached.
json_schema_to_pydantic_field(schema) ==
    LET json_type == IF schema.type.k = "absent" THEN "string" ELSE schema.type.v
    IN  IF schema.type.k = "list"
        THEN [raised |-> TRUE, kind |-> "", nullable |-> FALSE, default |-> Ellipsis]
        ELSE [raised   |-> FALSE,
              kind     |-> type_mapping_get(json_type),
              nullable |-> FALSE,
              default  |-> schema.default]

\* one field of the created model
tool_input_field(prop, required) ==
    LET f == json_schema_to_pydantic_field(prop.schema)
    IN  IF prop.name \notin required /\ f.default = Ellipsis
        THEN [name |-> prop.name, kind |-> f.kind, nullable |-> TRUE,
              default |-> "None", required |-> FALSE]
        ELSE [name |-> prop.name, kind |-> f.kind, nullable |-> f.nullable,
              default |-> f.default, required |-> (f.default = Ellipsis)]

\* _create_tool_input_model: raises when the translation of a property raises
create_tool_input_model(input_schema) ==
    LET props == input_schema.properties
    IN  IF \E i \in 1..Len(props) : json_schema_to_pydantic_field(props[i].schema).raised
        THEN [raised |-> TRUE, fields |-> <<>>]
        ELSE [raised |-> FALSE,
              fields |-> [i \in 1..Len(props) |->
                             tool_input_field(props[i], input_schema.required)]]

----------------------------------------------------------------------------
(* Inputs: server configurations and server behaviour *)

StrT == [k |-> "str", v |-> "integer", vs |-> {}]
StrS == [k |-> "str", v |-> "string", vs |-> {}]
ListT == [k |-> "list", v |-> "", vs |-> {"string", "null"}]

ToolT == [name |-> <<"t">>, description |-> "d",
          inputSchema |-> [properties |-> <<[name |-> "x", schema |-> [type |-> StrT, default |-> Ellipsis]]>>,
                           required |-> {"x"}]]
ToolUV == [name |-> <<"u", "_", "_", "v">>, description |-> "",
           inputSchema |-> [properties |-> <<[name |-> "y", schema |-> [type |-> StrS, default |-> Ellipsis]]>>,
                            required |-> {}]]
ToolW == [name |-> <<"w">>, description |-> "d",
          inputSchema |-> [properties |-> <<[name |-> "z", schema |-> [type |-> ListT, default |-> Ellipsis]]>>,
                           required |-> {}]]

\* the catalogs a server may answer list_tools with
Catalogs == {<<ToolT, ToolUV>>, <<ToolW, ToolT>>}

\* the timeout of a config that does not give one
DefaultTimeout == 30

\* a keyword argument left out, and Python's None
Absent == "absent"

None == "None"

\* not value, for a str | None
falsy(value) == value \in {None, ""}

\* a __post_init__ that checks for None only (not the code's)
post_init_error_none_only(transport, url, command) ==
    IF transport = "sse" /\ url = None THEN "ValueError"
    ELSE IF transport = "stdio" /\ command = None THEN "ValueError"
    ELSE ""

\* MCPServerConfig.__post_init__: what it raises, "" when it returns
post_init_error(transport, url, command) ==
    IF transport = "sse" /\ falsy(url) THEN "ValueError"
    ELSE IF transport = "stdio" /\ falsy(command) THEN "ValueError"
    ELSE ""

\* MCPServerConfig(name, transport, ...): the dataclass fills the fields left
\* out with their defaults and runs __post_init__; timeout and enabled are
\* [given, v] records
MCPServerConfig(kw) ==
    LET url     == IF kw.url = Absent THEN None ELSE kw.url
        command == IF kw.command = Absent THEN None ELSE kw.command
    IN  [error  |-> post_init_error(kw.transport, url, command),
         config |-> [name |-> kw.name, transport |-> kw.transport,
                     url |-> url, command |-> command,
                     timeout |-> IF kw.timeout.given THEN kw.timeout.v ELSE DefaultTimeout,
                     enabled |-> IF kw.enabled.given THEN kw.enabled.v ELSE TRUE]]

\* MCPServerConfig records that passed __post_init__
CfgA   == [name |-> <<"a">>, transport |-> "sse", url |-> "u", command |-> None,
           timeout |-> DefaultTimeout, enabled |-> TRUE]
CfgB   == [name |-> <<"b">>, transport |-> "stdio", url |-> None, command |-> "c",
           timeout |-> DefaultTimeout, enabled |-> TRUE]
CfgBoff == [name |-> <<"b">>, transport |-> "sse", url |-> "u", command |-> None,
            timeout |-> DefaultTimeout, enabled |-> FALSE]
CfgA2  == [name |-> <<"a">>, transport |-> "stdio", url |-> None, command |-> "c",
           timeout |-> DefaultTimeout, enabled |-> TRUE]
CfgAu  == [name |-> <<"a", "_">>, transport |-> "sse", url |-> "u", command |-> None,
           timeout |-> DefaultTimeout, enabled |-> TRUE]
CfgAB  == [name |-> <<"a", "_", "_", "b">>, transport |-> "stdio", url |-> None,
           command |-> "c", timeout |-> DefaultTimeout, enabled |-> TRUE]
CfgWs  == [name |-> <<"b">>, transport |-> "ws", url |-> None, command |-> None,
           timeout |-> DefaultTimeout, enabled |-> TRUE]

\* the lists a manager is constructed from
ConfigLists ==
    { <<>>, <<CfgBoff>>, <<CfgA>>, <<CfgA, CfgBoff, CfgWs, CfgAu>>, <<CfgAB, CfgB>>,
      <<CfgA, CfgA2>> }

\* how one connect() goes: the step that fails ("none": it succeeds) and the catalog
ConnectOutcomes ==
    {[fail |-> f, catalog |-> <<>>] : f \in {"transport", "enter", "initialize", "list_tools"}}
    \cup {[fail |-> "none", catalog |-> c] : c \in Catalogs}

TextBlock == [type |-> "text", payload |-> "p"]
DataBlock == [type |-> "data", payload |-> "q"]
OtherBlock == [type |-> "other", payload |-> ""]

\* how one session.call_tool goes: it raises, or answers with content blocks
CallOutcomes ==
    {[fail |-> TRUE, content |-> <<>>]}
    \cup {[fail |-> FALSE, content |-> b] : b \in {<<>>, <<TextBlock>>, <<TextBlock, DataBlock>>}}

Arguments == {"x1", "x2"}

\* the names call_tool is invoked with: a???t stand for names of the form below
QNames ==
    { <<"a", "_", "_", "t">>,                      \* "a" + "__" + "t"
      <<"a", "_", "_", "u", "_", "_", "v">>,       \* "a" + "__" + "u__v"
      <<"b", "_", "_", "t">>,                      \* "b" + "__" + "t"
      <<"a", "_", "_", "_", "t">>,                 \* "a_" + "__" + "t"
      <<"a", "_", "_", "b", "_", "_", "t">>,       \* "a__b" + "__" + "t"
      <<"a", "_", "t">> }                          \* no separator

----------------------------------------------------------------------------
(* dict with insertion order: a sequence of [name, client] *)

dict_has(d, k) == \E i \in 1..Len(d) : d[i].name = k

dict_get(d, k) == d[CHOOSE i \in 1..Len(d) : d[i].name = k].client

dict_set(d, k, c) ==
    IF dict_has(d, k)
    THEN [i \in 1..Len(d) |-> IF d[i].name = k THEN [name |-> k, client |-> c] ELSE d[i]]
    ELSE Append(d, [name |-> k, client |-> c])

----------------------------------------------------------------------------
(* MCPClient *)

\* one call issued during a method: a client method the manager invoked
\* ("connect", "call_tool", "disconnect"), a request a client sent ("send"), or
\* a step of a client's connect or disconnect ("transport_enter",
\* "session_enter", "initialize", "list_tools", "session_exit",
\* "transport_exit"), with what it raised (error, "" when it returned) and what
\* it returned
call_entry(call, cfg, server, tool, arguments, error, result) ==
    [call |-> call, cfg |-> cfg, server |-> server, tool |-> tool,
     arguments |-> arguments, error |-> error, result |-> result]

NoResult == [kind |-> "", items |-> <<>>]

\* MCPClient.__init__; cfg is the position of its config in input_configs
new_client(cfg) ==
    [cfg |-> cfg, session |-> FALSE, tools |-> <<>>, connected |-> FALSE,
     session_context |-> "none", transport_context |-> "none"]

\* MCPClient.disconnect
client_disconnect(c) ==
    IF ~c.connected
    THEN c
    ELSE [c EXCEPT !.connected = FALSE, !.session = FALSE,
                   !.session_context = "none", !.transport_context = "none"]

\* how the release of one connection goes: whether the __aexit__ of the
\* ClientSession and of the transport context raise
TeardownOutcomes == [session_exit : BOOLEAN, transport_exit : BOOLEAN]

NoTeardownFailure == [session_exit |-> FALSE, transport_exit |-> FALSE]

\* a step of the teardown, which __aexit__(None, None, None) raised out of or not
teardown_entry(call, c, name, failed) ==
    call_entry(call, c.cfg, name, <<>>, "", IF failed THEN "TeardownError" ELSE "", NoResult)

\* a disconnect that gives up at the first teardown failure (not the code's)
disconnect_trace_stops_on_failure(c, name, transport, tout) ==
    IF ~c.connected
    THEN <<>>
    ELSE <<teardown_entry("session_exit", c, name, tout.session_exit)>>
         \o (IF tout.session_exit
             THEN <<>>
             ELSE <<teardown_entry("transport_exit", c, name, tout.transport_exit)>>)

\* the releases MCPClient.disconnect attempts, in order: the ClientSession
\* context, then the sse or stdio context of the config's transport
disconnect_trace(c, name, transport, tout) ==
    IF ~c.connected
    THEN <<>>
    ELSE (IF c.session_context # "none"
          THEN <<teardown_entry("session_exit", c, name, tout.session_exit)>>
          ELSE <<>>)
         \o (IF transport \in {"sse", "stdio"} /\ c.transport_context # "none"
             THEN <<teardown_entry("transport_exit", c, name, tout.transport_exit)>>
             ELSE <<>>)

\* a disconnect that lets a teardown failure out (not the code's)
client_disconnect_error_propagates(c, tout) ==
    IF c.connected /\ (tout.session_exit \/ tout.transport_exit) THEN "TeardownError" ELSE ""

\* what MCPClient.disconnect raises: every __aexit__ is wrapped in
\* try/except Exception: pass
client_disconnect_error(c, tout) == ""

\* a connect that marks the session connected once the handshake is done,
\* before the tool list is loaded (not the code's)
client_connect_marks_early(c, transport, out) ==
    LET c0 == IF c.connected THEN client_disconnect(c) ELSE c
    IN  IF transport \notin {"sse", "stdio"}
        THEN [client |-> [c0 EXCEPT !.connected = FALSE], error |-> "ValueError"]
        ELSE IF out.fail = "transport"
        THEN [client |-> [c0 EXCEPT !.transport_context = "created", !.connected = FALSE],
              error |-> "ConnectionError"]
        ELSE IF out.fail = "enter"
        THEN [client |-> [c0 EXCEPT !.transport_context = "open",
                                    !.session_context = "created", !.connected = FALSE],
              error |-> "ConnectionError"]
        ELSE IF out.fail = "initialize"
        THEN [client |-> [c0 EXCEPT !.transport_context = "open", !.session_context = "open",
                                    !.session = TRUE, !.connected = FALSE],
              error |-> "ConnectionError"]
        ELSE IF out.fail = "list_tools"
        THEN [client |-> [c0 EXCEPT !.transport_context = "open", !.session_context = "open",
                                    !.session = TRUE, !.connected = TRUE],
              error |-> "ConnectionError"]
        ELSE [client |-> [c0 EXCEPT !.transport_context = "open", !.session_context = "open",
                                    !.session = TRUE, !.tools = out.catalog,
                                    !.connected = TRUE],
              error |-> ""]

\* MCPClient.connect, with the transport of its config and the server's behaviour
client_connect(c, transport, out) ==
    LET c0 == IF c.connected THEN client_disconnect(c) ELSE c
    IN  IF transport \notin {"sse", "stdio"}
        THEN [client |-> [c0 EXCEPT !.connected = FALSE], error |-> "ValueError"]
        ELSE IF out.fail = "transport"
        THEN [client |-> [c0 EXCEPT !.transport_context = "created", !.connected = FALSE],
              error |-> "ConnectionError"]
        ELSE IF out.fail = "enter"
        THEN [client |-> [c0 EXCEPT !.transport_context = "open",
                                    !.session_context = "created", !.connected = FALSE],
              error |-> "ConnectionError"]
        ELSE IF out.fail \in {"initialize", "list_tools"}
        THEN [client |-> [c0 EXCEPT !.transport_context = "open", !.session_context = "open",
                                    !.session = TRUE, !.connected = FALSE],
              error |-> "ConnectionError"]
        ELSE [client |-> [c0 EXCEPT !.transport_context = "open", !.session_context = "open",
                                    !.session = TRUE, !.tools = out.catalog,
                                    !.connected = TRUE],
              error |-> ""]

\* the value call_tool returns for a response's content blocks
normalize_content(content) ==
    LET contents == SelectSeq(content, LAMBDA b : b.type \in {"text", "data"})
        payloads == [i \in 1..Len(contents) |-> contents[i].payload]
    IN  IF content = <<>>
        THEN [kind |-> "None", items |-> <<>>]
        ELSE IF Len(payloads) = 1
        THEN [kind |-> "single", items |-> payloads]
        ELSE [kind |-> "list", items |-> payloads]

\* MCPClient.call_tool whose except branch leaves _connected as it was (not the code's)
client_call_tool_keeps_connected(c, name, out) ==
    IF ~c.session
    THEN [client |-> c, error |-> "NotConnected", about |-> name, result |-> NoResult,
          sent |-> FALSE]
    ELSE IF out.fail
    THEN [client |-> [c EXCEPT !.session = FALSE],
          error |-> "ServerDisconnected", about |-> name, result |-> NoResult,
          sent |-> TRUE]
    ELSE [client |-> c, error |-> "", about |-> <<>>,
          result |-> normalize_content(out.content), sent |-> TRUE]

\* MCPClient.call_tool of the client named name: sent is whether
\* session.call_tool was invoked, about the server the error message names
client_call_tool(c, name, out) ==
    IF ~c.session
    THEN [client |-> c, error |-> "NotConnected", about |-> name, result |-> NoResult,
          sent |-> FALSE]
    ELSE IF out.fail
    THEN [client |-> [c EXCEPT !.connected = FALSE, !.session = FALSE],
          error |-> "ServerDisconnected", about |-> name, result |-> NoResult,
          sent |-> TRUE]
    ELSE [client |-> c, error |-> "", about |-> <<>>,
          result |-> normalize_content(out.content), sent |-> TRUE]

----------------------------------------------------------------------------
(* MCPToolManager *)

\* MCPToolManager.__init__: self.configs, as positions in the list it was given
manager_configs(cfgs) ==
    SelectSeq([i \in 1..Len(cfgs) |-> i], LAMBDA i : cfgs[i].enabled)

\* a loop body that stores the client whatever connect() did (not the code's)
connect_all_store_always(cl, name, r) == dict_set(cl, name, r.client)

\* what connect_all does with a client after its connect(): stored under its
\* config's name on success, dropped when connect() raised
connect_all_store(cl, name, r) ==
    IF r.error = "" THEN dict_set(cl, name, r.client) ELSE cl

\* the clients a dict assignment stops referencing
overwritten(cl, name, r) ==
    IF r.error = "" /\ dict_has(cl, name) THEN {dict_get(cl, name)} ELSE {}

\* the for loop of connect_all from position k of self.configs on
RECURSIVE connect_all_loop(_, _, _, _, _, _, _)
connect_all_loop(cfgs, todo, outs, k, cl, orph, trace) ==
    IF k > Len(todo)
    THEN [clients |-> cl, orphans |-> orph, trace |-> trace]
    ELSE LET i == todo[k]
             r == client_connect(new_client(i), cfgs[i].transport, outs[i])
         IN  connect_all_loop(cfgs, todo, outs, k + 1,
                              connect_all_store(cl, cfgs[i].name, r),
                              orph \cup overwritten(cl, cfgs[i].name, r),
                              Append(trace, call_entry("connect", i, cfgs[i].name, <<>>, "",
                                                       r.error, NoResult)))

\* mcp_tool.description or f"Tool {mcp_tool.name} from {server_name}"
tool_description(server_name, tool) ==
    IF tool.description = ""
    THEN [text |-> "Tool {} from {}", tool |-> tool.name, server |-> server_name]
    ELSE [text |-> tool.description, tool |-> <<>>, server |-> <<>>]

\* the MCPLangChainTool built for one tool of one client
langchain_tool(server_name, tool) ==
    [name          |-> qualified_name(server_name, tool.name),
     description   |-> tool_description(server_name, tool),
     args_schema   |-> create_tool_input_model(tool.inputSchema).fields,
     mcp_client    |-> server_name,
     mcp_tool_name |-> tool.name]

\* the tools of one client that convert, in catalog order: a tool whose
\* conversion raises is logged and skipped
RECURSIVE client_langchain_tools(_, _, _)
client_langchain_tools(server_name, tools, k) ==
    IF k > Len(tools)
    THEN <<>>
    ELSE (IF create_tool_input_model(tools[k].inputSchema).raised
          THEN <<>>
          ELSE <<langchain_tool(server_name, tools[k])>>)
         \o client_langchain_tools(server_name, tools, k + 1)

\* MCPToolManager._build_langchain_tools, from position k of self.clients on
RECURSIVE build_langchain_tools(_, _)
build_langchain_tools(cl, k) ==
    IF k > Len(cl)
    THEN <<>>
    ELSE client_langchain_tools(cl[k].name, cl[k].client.tools, 1)
         \o build_langchain_tools(cl, k + 1)

\* the record of a method invocation, before its outcome is known: its name
\* and arguments, what it raised (error, the server the message names, the
\* error it wraps), what it returned (result, tools), the calls it issued
\* (trace) and the clients it stopped referencing, as it left them (dropped)
NoCall == [op |-> "init", was_initialized |-> FALSE, name |-> <<>>, arguments |-> "",
           error |-> "", about |-> <<>>, cause |-> "", result |-> NoResult,
           tools |-> <<>>, trace |-> <<>>, dropped |-> <<>>]

\* the server behaviour one connect_all consumes: one outcome per enabled config
\* whose transport is supported (the others never reach a server)
connect_all_inputs(cfgs) ==
    LET Refused == [fail |-> "transport", catalog |-> <<>>]
    IN  {outs \in [1..Len(cfgs) -> ConnectOutcomes] :
            \A i \in 1..Len(cfgs) :
               (~cfgs[i].enabled \/ cfgs[i].transport \notin {"sse", "stdio"})
                  => outs[i] = Refused}

\* a list a caller holds: keeps is whether the caller retains what
\* get_langchain_tools returns, ref whether the list it retains is the object
\* self._langchain_tools names ("same"), an object that attribute named
\* before ("old"), or nothing yet; got is its contents when it was returned,
\* items its contents now
NoList == [keeps |-> FALSE, ref |-> "none", got |-> <<>>, items |-> <<>>]

\* return self._langchain_tools: the caller gets the list object itself
list_returned(h, reg) ==
    IF h.keeps THEN [h EXCEPT !.ref = "same", !.got = reg, !.items = reg] ELSE h

\* self._langchain_tools = []: the attribute names a new list object
list_rebound(h) ==
    IF h.ref = "same" THEN [h EXCEPT !.ref = "old"] ELSE h

\* self._langchain_tools.clear(): the list object is emptied in place
list_cleared(h) ==
    IF h.ref = "same" THEN [h EXCEPT !.items = <<>>] ELSE h

\* a connect_all without its early return (not the code's)
connect_all_returns_early_never(init) == FALSE

\* if self._initialized: return
connect_all_returns_early(init) == init

\* MCPToolManager.connect_all
connect_all ==
    /\ UNCHANGED <<max_messages, user_memories, memories, threads, objects, tasks, input_configs, probe, client>>
    /\ held' = IF connect_all_returns_early(initialized) THEN held ELSE list_rebound(held)
    /\ LET call == [NoCall EXCEPT !.op = "connect_all", !.was_initialized = initialized]
       IN  IF connect_all_returns_early(initialized)
           THEN /\ UNCHANGED <<clients, registry, initialized, orphans>>
                /\ last' = call
           ELSE \E outs \in connect_all_inputs(input_configs) :
                  LET r == connect_all_loop(input_configs, manager_configs(input_configs),
                                            outs, 1, clients, orphans, <<>>)
                  IN  /\ clients' = r.clients
                      /\ orphans' = r.orphans
                      /\ registry' = build_langchain_tools(r.clients, 1)
                      /\ initialized' = TRUE
                      /\ last' = [call EXCEPT !.trace = r.trace]

\* a get_langchain_tools without its check (not the code's)
get_langchain_tools_raises_never(init) == FALSE

\* if not self._initialized: raise RuntimeError
get_langchain_tools_raises(init) == ~init

\* MCPToolManager.get_langchain_tools
get_langchain_tools ==
    /\ UNCHANGED <<max_messages, user_memories, memories, threads, objects, tasks, input_configs, clients, registry, initialized, orphans, probe, client>>
    /\ held' = IF get_langchain_tools_raises(initialized)
               THEN held ELSE list_returned(held, registry)
    /\ LET call == [NoCall EXCEPT !.op = "get_langchain_tools",
                                  !.was_initialized = initialized]
       IN  last' = IF get_langchain_tools_raises(initialized)
                   THEN [call EXCEPT !.error = "NotInitialized"]
                   ELSE [call EXCEPT !.tools = registry]

\* a name check that looks for a single underscore (not the code's)
name_is_invalid_single(tool_name) == \A i \in 1..Len(tool_name) : tool_name[i] # "_"

\* if "__" not in tool_name
name_is_invalid(tool_name) == ~has_sep(tool_name)

\* a call_tool without its membership check (not the code's)
server_not_found_never(cl, server_name) == FALSE

\* a membership check that lets the name of a configured server through (not the code's)
server_not_found_unless_configured(cl, server_name) ==
    /\ ~dict_has(cl, server_name)
    /\ ~\E i \in 1..Len(input_configs) :
           input_configs[i].enabled /\ input_configs[i].name = server_name

\* if server_name not in self.clients
server_not_found(cl, server_name) == ~dict_has(cl, server_name)

\* a reconnect done on every call (not the code's)
needs_reconnect_always(c) == TRUE

\* if not client.is_connected
needs_reconnect(c) == ~c.connected

\* a reconnect whose failure is swallowed (not the code's)
reconnect_raised_never(rc) == FALSE

\* the except branch of the reconnect: connect() raised
reconnect_raised(rc) == rc.error # ""

\* return await client.call_tool(mcp_tool_name, arguments)
call_tool_return(rr) == rr.result

\* MCPToolManager.call_tool once the client is resolved (lines 197-209)
call_tool_resolved(server_name, c, transport, mcp_tool_name, arguments, cout, rout) ==
    LET rc  == IF needs_reconnect(c)
               THEN client_connect(c, transport, cout)
               ELSE [client |-> c, error |-> ""]
        t1  == IF needs_reconnect(c)
               THEN <<call_entry("connect", c.cfg, server_name, <<>>, "", rc.error, NoResult)>>
               ELSE <<>>
        rr  == client_call_tool(rc.client, server_name, rout)
        t2  == <<call_entry("call_tool", c.cfg, server_name, mcp_tool_name, arguments,
                            rr.error, rr.result)>>
        t3  == IF rr.sent
               THEN <<call_entry("send", c.cfg, server_name, mcp_tool_name, arguments,
                                 rr.error, rr.result)>>
               ELSE <<>>
    IN  IF reconnect_raised(rc)
        THEN [client |-> rc.client, error |-> "ServerUnavailable", about |-> server_name,
              cause |-> rc.error, result |-> NoResult, trace |-> t1]
        ELSE [client |-> rr.client, error |-> rr.error, about |-> rr.about, cause |-> "",
              result |-> call_tool_return(rr), trace |-> t1 \o t3 \o t2]

\* the server behaviour a call_tool on client c consumes: no connect outcome
\* when c is connected, no call outcome when the reconnect fails
reconnect_inputs(c) ==
    IF needs_reconnect(c) THEN ConnectOutcomes ELSE {[fail |-> "none", catalog |-> <<>>]}

call_inputs(c, transport, cout) ==
    IF needs_reconnect(c) /\ reconnect_raised(client_connect(c, transport, cout))
    THEN {[fail |-> TRUE, content |-> <<>>]}
    ELSE CallOutcomes

\* a call_tool that rebuilds the registry from the sessions' catalogs (not the code's)
registry_after_call_rebuilt(reg, cl) == build_langchain_tools(cl, 1)

\* call_tool never assigns _langchain_tools, whatever connect() reloaded
registry_after_call(reg, cl) == reg

\* MCPToolManager.call_tool
call_tool ==
    \E tool_name \in QNames, arguments \in Arguments :
       /\ UNCHANGED <<max_messages, user_memories, memories, threads, held, objects, tasks, input_configs, initialized, orphans, probe, client>>
       /\ LET call == [NoCall EXCEPT !.op = "call_tool", !.was_initialized = initialized,
                                     !.name = tool_name, !.arguments = arguments]
          IN  IF name_is_invalid(tool_name)
              THEN /\ clients' = clients
                   /\ last' = [call EXCEPT !.error = "InvalidName"]
              ELSE LET server_name   == split_first(tool_name)[1]
                       mcp_tool_name == split_first(tool_name)[2]
                   IN  IF server_not_found(clients, server_name)
                       THEN /\ clients' = clients
                            /\ last' = [call EXCEPT !.error = "ServerNotFound",
                                                    !.about = server_name]
                       ELSE IF ~dict_has(clients, server_name)
                       THEN \* self.clients[server_name] of a missing key: not
                            \* reached, the check above has raised
                            /\ clients' = clients
                            /\ last' = [call EXCEPT !.error = "KeyError"]
                       ELSE LET c == dict_get(clients, server_name)
                                t == input_configs[c.cfg].transport
                            IN  \E cout \in reconnect_inputs(c) :
                                \E rout \in call_inputs(c, t, cout) :
                                  LET r == call_tool_resolved(server_name, c, t,
                                               mcp_tool_name, arguments, cout, rout)
                                  IN  /\ clients' = dict_set(clients, server_name, r.client)
                                      /\ last' = [call EXCEPT !.error = r.error,
                                                              !.about = r.about,
                                                              !.cause = r.cause,
                                                              !.result = r.result,
                                                              !.trace = r.trace]
       /\ registry' = registry_after_call(registry, clients')

\* the teardown behaviour one disconnect_all consumes: one outcome per held
\* client that is connected (the others return at once)
disconnect_all_inputs(cl) ==
    {touts \in [1..Len(cl) -> TeardownOutcomes] :
        \A n \in 1..Len(cl) : ~cl[n].client.connected => touts[n] = NoTeardownFailure}

\* the for loop of disconnect_all from position k of self.clients.values() on:
\* a disconnect() that raises ends the loop and the method
RECURSIVE disconnect_all_loop(_, _, _, _, _, _)
disconnect_all_loop(cfgs, cl, touts, k, done, trace) ==
    IF k > Len(cl)
    THEN [clients |-> done, error |-> "", trace |-> trace]
    ELSE LET c   == cl[k].client
             e   == client_disconnect_error(c, touts[k])
             tr  == <<call_entry("disconnect", c.cfg, cl[k].name, <<>>, "", e, NoResult)>>
                    \o disconnect_trace(c, cl[k].name, cfgs[c.cfg].transport, touts[k])
             upd == Append(done, [name |-> cl[k].name, client |-> client_disconnect(c)])
         IN  IF e # ""
             THEN [clients |-> upd \o SubSeq(cl, k + 1, Len(cl)), error |-> e,
                   trace |-> trace \o tr]
             ELSE disconnect_all_loop(cfgs, cl, touts, k + 1, upd, trace \o tr)

\* a disconnect_all that refuses a manager that is not initialized (not the code's)
disconnect_all_raises_uninitialized(init) == ~init

\* disconnect_all has no check of _initialized before its loop
disconnect_all_raises(init) == FALSE

\* MCPToolManager.disconnect_all
disconnect_all ==
    /\ UNCHANGED <<max_messages, user_memories, memories, threads, objects, tasks, input_configs, orphans, probe, client>>
    /\ LET call == [NoCall EXCEPT !.op = "disconnect_all", !.was_initialized = initialized]
       IN  IF disconnect_all_raises(initialized)
           THEN /\ UNCHANGED <<clients, registry, initialized, held>>
                /\ last' = [call EXCEPT !.error = "NotInitialized"]
           ELSE \E touts \in disconnect_all_inputs(clients) :
                  LET r == disconnect_all_loop(input_configs, clients, touts, 1, <<>>, <<>>)
                  IN  IF r.error # ""
                      THEN \* a disconnect() raised: the clear() calls are not reached
                           /\ clients' = r.clients
                           /\ UNCHANGED <<registry, initialized, held>>
                           /\ last' = [call EXCEPT !.error = r.error, !.trace = r.trace]
                      ELSE /\ clients' = <<>>
                           /\ registry' = <<>>
                           /\ held' = list_cleared(held)
                           /\ initialized' = FALSE
                           /\ last' = [call EXCEPT
                                         !.trace = r.trace,
                                         !.dropped = [n \in 1..Len(r.clients) |->
                                                        r.clients[n].client]]

NoProbe == [fn |-> "", server |-> <<>>, tool |-> <<>>, out |-> <<>>]

\* the manager as constructed from one list of configs
Init ==
    /\ max_messages = 0
    /\ user_memories = <<>>
    /\ memories = <<>>
    /\ threads = <<>>
    /\ held = NoList
    /\ objects = <<>>
    /\ tasks = <<>>
    /\ input_configs \in ConfigLists
    /\ clients = <<>>
    /\ registry = <<>>
    /\ initialized = FALSE
    /\ orphans = {}
    /\ last = NoCall
    /\ probe = NoProbe
    /\ client = new_client(0)

Next ==
    \/ connect_all
    \/ get_langchain_tools
    \/ call_tool
    \/ disconnect_all

Spec == Init /\ [][Next]_vars

----------------------------------------------------------------------------
(* The qualified name as a pure function: built at registration, split at call *)

MaxStrLen == 3

Chars == {"a", "_"}

\* every string over Chars of length at most n
Strings(n) == UNION {[1..m -> Chars] : m \in 0..n}

\* what call_tool makes of the name registered for (server, tool): the pair it
\* resolves, <<>> when it rejects the name
split_probe ==
    /\ probe.fn = "input"
    /\ LET tool_name == qualified_name(probe.server, probe.tool)
       IN  probe' = [probe EXCEPT !.fn = "split",
                                  !.out = IF name_is_invalid(tool_name)
                                          THEN <<>>
                                          ELSE split_first(tool_name)]
    /\ UNCHANGED <<max_messages, user_memories, memories, threads, held, objects, tasks, input_configs, clients, registry, initialized, orphans, last, client>>

InitSplit ==
    /\ max_messages = 0
    /\ user_memories = <<>>
    /\ memories = <<>>
    /\ threads = <<>>
    /\ held = NoList
    /\ objects = <<>>
    /\ tasks = <<>>
    /\ input_configs = <<>>
    /\ clients = <<>>
    /\ registry = <<>>
    /\ initialized = FALSE
    /\ orphans = {}
    /\ last = NoCall
    /\ probe \in {[fn |-> "input", server |-> s, tool |-> t, out |-> <<>>] :
                     s \in Strings(MaxStrLen), t \in Strings(MaxStrLen)}
    /\ client = new_client(0)

NextSplit == split_probe

SpecSplit == InitSplit /\ [][NextSplit]_vars

----------------------------------------------------------------------------
(* The schema translation as a pure function *)

TypeAbsent == [k |-> "absent", v |-> "", vs |-> {}]
TypeArray == [k |-> "str", v |-> "array", vs |-> {}]
TypeUnknown == [k |-> "str", v |-> "foo", vs |-> {}]

\* the "type" and "default" keywords a property schema may carry
PropertySchemas ==
    [type    : {TypeAbsent, StrT, StrS, TypeArray, TypeUnknown, ListT},
     default : {Ellipsis, "d"}]

\* the "properties" of an input schema, in their declared order
PropertyLists ==
    {<<>>}
    \cup {<<[name |-> "x", schema |-> sx]>> : sx \in PropertySchemas}
    \cup {<<[name |-> "x", schema |-> sx], [name |-> "y", schema |-> sy]>> :
             sx \in PropertySchemas, sy \in PropertySchemas}
    \cup {<<[name |-> "y", schema |-> sy], [name |-> "x", schema |-> sx]>> :
             sx \in {[type |-> StrT, default |-> Ellipsis]}, sy \in PropertySchemas}

InputSchemas == [properties : PropertyLists, required : SUBSET {"x", "y"}]

\* _create_tool_input_model(tool_name, input_schema)
schema_probe ==
    /\ probe.fn = "input"
    /\ probe' = [probe EXCEPT !.fn = "schema",
                              !.out = create_tool_input_model(probe.schema)]
    /\ UNCHANGED <<max_messages, user_memories, memories, threads, held, objects, tasks, input_configs, clients, registry, initialized, orphans, last, client>>

InitSchema ==
    /\ max_messages = 0
    /\ user_memories = <<>>
    /\ memories = <<>>
    /\ threads = <<>>
    /\ held = NoList
    /\ objects = <<>>
    /\ tasks = <<>>
    /\ input_configs = <<>>
    /\ clients = <<>>
    /\ registry = <<>>
    /\ initialized = FALSE
    /\ orphans = {}
    /\ last = NoCall
    /\ probe \in {[fn |-> "input", schema |-> sc, out |-> <<>>] : sc \in InputSchemas}
    /\ client = new_client(0)

NextSchema == schema_probe

SpecSchema == InitSchema /\ [][NextSchema]_vars

----------------------------------------------------------------------------
(* The construction of an MCPServerConfig as a pure function *)

\* the keyword arguments a config is constructed from
ConfigKwargs ==
    [name      : {<<"a">>},
     transport : {"sse", "stdio", "ws"},
     url       : {Absent, None, "", "u"},
     command   : {Absent, None, "", "c"},
     timeout   : {[given |-> FALSE, v |-> 0], [given |-> TRUE, v |-> 5]},
     enabled   : {[given |-> FALSE, v |-> FALSE], [given |-> TRUE, v |-> FALSE],
                  [given |-> TRUE, v |-> TRUE]}]

\* MCPServerConfig(**kwargs)
config_probe ==
    /\ probe.fn = "input"
    /\ probe' = [probe EXCEPT !.fn = "config", !.out = MCPServerConfig(probe.kwargs)]
    /\ UNCHANGED <<max_messages, user_memories, memories, threads, held, objects, tasks, input_configs, clients, registry, initialized, orphans, last, client>>

InitConfig ==
    /\ max_messages = 0
    /\ user_memories = <<>>
    /\ memories = <<>>
    /\ threads = <<>>
    /\ held = NoList
    /\ objects = <<>>
    /\ tasks = <<>>
    /\ input_configs = <<>>
    /\ clients = <<>>
    /\ registry = <<>>
    /\ initialized = FALSE
    /\ orphans = {}
    /\ last = NoCall
    /\ probe \in {[fn |-> "input", kwargs |-> kw, out |-> <<>>] : kw \in ConfigKwargs}
    /\ client = new_client(0)

NextConfig == config_probe

SpecConfig == InitConfig /\ [][NextConfig]_vars

----------------------------------------------------------------------------
(* An MCPClient driven directly: connect, call_tool, disconnect, tools *)

MaxBlocks == 2

Blocks == {TextBlock, DataBlock, OtherBlock}

\* every response content of at most n blocks
Contents(n) == UNION {[1..m -> Blocks] : m \in 0..n}

\* how one session.call_tool goes, for a client called directly
ClientCallOutcomes ==
    {[fail |-> TRUE, content |-> <<>>]}
    \cup {[fail |-> FALSE, content |-> b] : b \in Contents(MaxBlocks)}

\* the configs a client is constructed from
ClientConfigs == {<<CfgA>>, <<CfgB>>, <<CfgWs>>}

ToolNames == {<<"t">>}

\* a connect that opens the new connection without releasing the old one
\* (not the code's)
reset_trace_never(c, name, transport, tout) == <<>>

\* if self._connected: await self.disconnect()
reset_trace(c, name, transport, tout) ==
    IF c.connected THEN disconnect_trace(c, name, transport, tout) ELSE <<>>

\* the steps of _connect_sse / _connect_stdio and _load_tools, in order
ConnectSteps == <<"transport_enter", "session_enter", "initialize", "list_tools">>

\* the position in ConnectSteps of the step that raises, 5 when none does
failing_step(out) ==
    CASE out.fail = "transport"  -> 1
      [] out.fail = "enter"      -> 2
      [] out.fail = "initialize" -> 3
      [] out.fail = "list_tools" -> 4
      [] OTHER                   -> 5

\* the steps the try block of connect() runs, up to the one that raises; an
\* unsupported transport raises before any step
open_trace(c, name, transport, out) ==
    IF transport \notin {"sse", "stdio"}
    THEN <<>>
    ELSE LET f == failing_step(out)
         IN  [i \in 1..(IF f < 4 THEN f ELSE 4) |->
                call_entry(ConnectSteps[i], c.cfg, name, <<>>, "",
                           IF i = f THEN "ConnectionError" ELSE "", NoResult)]

\* the calls MCPClient.connect issues
connect_trace(c, name, transport, out, tout) ==
    reset_trace(c, name, transport, tout) \o open_trace(c, name, transport, out)

\* a tools property that hides the catalog of a client that is not connected
\* (not the code's)
client_tools_connected_only(c) ==
    [error |-> "", tools |-> IF c.connected THEN c.tools ELSE <<>>]

\* the tools property
client_tools(c) == [error |-> "", tools |-> c.tools]

\* the record of a client method invocation, before its outcome is known: the
\* client as the method found it, the method's arguments, what it raised and
\* returned, the server's response to its request, the calls it issued, and
\* the catalog the latest successful connect() so far has loaded
NoClientCall ==
    [op |-> "init", before |-> new_client(1), name |-> <<>>, arguments |-> "",
     error |-> "", result |-> NoResult, response |-> <<>>, tools |-> <<>>,
     trace |-> <<>>, loaded |-> [ever |-> FALSE, catalog |-> <<>>]]

\* the call record of a method invoked on client
client_call(op) == [NoClientCall EXCEPT !.op = op, !.before = client, !.loaded = last.loaded]

\* the server behaviour one connect() consumes
connect_inputs(transport) ==
    IF transport \in {"sse", "stdio"}
    THEN ConnectOutcomes
    ELSE {[fail |-> "transport", catalog |-> <<>>]}

teardown_inputs(c) == IF c.connected THEN TeardownOutcomes ELSE {NoTeardownFailure}

\* MCPClient.connect
MCPClient_connect ==
    /\ UNCHANGED <<max_messages, user_memories, memories, threads, held, objects, tasks, input_configs, clients, registry, initialized, orphans, probe>>
    /\ LET cfg == input_configs[client.cfg]
       IN  \E cout \in connect_inputs(cfg.transport), tout \in teardown_inputs(client) :
             LET r == client_connect(client, cfg.transport, cout)
             IN  /\ client' = r.client
                 /\ last' = [client_call("connect") EXCEPT
                               !.error = r.error,
                               !.trace = connect_trace(client, cfg.name, cfg.transport,
                                                       cout, tout),
                               !.loaded = IF r.error = ""
                                          THEN [ever |-> TRUE, catalog |-> cout.catalog]
                                          ELSE last.loaded]

\* MCPClient.call_tool
MCPClient_call_tool ==
    /\ UNCHANGED <<max_messages, user_memories, memories, threads, held, objects, tasks, input_configs, clients, registry, initialized, orphans, probe>>
    /\ LET cfg == input_configs[client.cfg]
       IN  \E tool_name \in ToolNames :
           \E rout \in (IF client.session THEN ClientCallOutcomes
                         ELSE {[fail |-> TRUE, content |-> <<>>]}) :
             LET r == client_call_tool(client, cfg.name, rout)
             IN  /\ client' = r.client
                 /\ last' = [client_call("call_tool") EXCEPT
                               !.name = tool_name,
                               !.arguments = "x1",
                               !.error = r.error,
                               !.result = r.result,
                               !.response = IF r.sent THEN rout.content ELSE <<>>,
                               !.trace = IF r.sent
                                         THEN <<call_entry("send", client.cfg, cfg.name,
                                                           tool_name, "x1", r.error,
                                                           r.result)>>
                                         ELSE <<>>]

\* MCPClient.disconnect
MCPClient_disconnect ==
    /\ UNCHANGED <<max_messages, user_memories, memories, threads, held, objects, tasks, input_configs, clients, registry, initialized, orphans, probe>>
    /\ LET cfg == input_configs[client.cfg]
       IN  \E tout \in teardown_inputs(client) :
             /\ client' = client_disconnect(client)
             /\ last' = [client_call("disconnect") EXCEPT
                           !.error = client_disconnect_error(client, tout),
                           !.trace = disconnect_trace(client, cfg.name, cfg.transport, tout)]

\* MCPClient.tools
MCPClient_tools ==
    /\ UNCHANGED <<max_messages, user_memories, memories, threads, held, objects, tasks, input_configs, clients, registry, initialized, orphans, probe, client>>
    /\ last' = [client_call("tools") EXCEPT !.error = client_tools(client).error,
                                            !.tools = client_tools(client).tools]

\* a client as constructed from one config
InitClient ==
    /\ max_messages = 0
    /\ user_memories = <<>>
    /\ memories = <<>>
    /\ threads = <<>>
    /\ held = NoList
    /\ objects = <<>>
    /\ tasks = <<>>
    /\ input_configs \in ClientConfigs
    /\ clients = <<>>
    /\ registry = <<>>
    /\ initialized = FALSE
    /\ orphans = {}
    /\ last = NoClientCall
    /\ probe = NoProbe
    /\ client = new_client(1)

NextClient ==
    \/ MCPClient_connect
    \/ MCPClient_call_tool
    \/ MCPClient_disconnect
    \/ MCPClient_tools

SpecClient == InitClient /\ [][NextClient]_vars

----------------------------------------------------------------------------
(* Concurrent callers: coroutines of one manager on one asyncio event loop.
   A coroutine runs without interruption from one await of a server's answer
   to the next; while it is suspended any other coroutine may be started or
   resumed. The code takes no lock and wraps no await in a timeout, so the
   suspension points below are all there is to its scheduling. *)

\* the operations the tasks start, all together
MaxOps == 4

Tasks == {"t1", "t2"}

\* the manager's configs, the catalog every server lists, the names called
TaskConfigs == <<CfgA, CfgB>>
TaskCatalog == <<ToolT>>
TaskNames == {<<"a", "_", "_", "t">>, <<"b", "_", "_", "t">>}

\* how an awaited server answers: it does, it raises, or it never responds
AwaitOutcomes == {"ok", "fail", "never"}

\* a task that runs no coroutine: n counts the operations it has started, error
\* is what its last operation raised; otherwise pc is the await it is suspended
\* at, obj the MCPClient its frame holds, k its loop position, size the length
\* of self.clients when its iterator was created, hung whether the server it
\* awaits will never respond
IdleTask == [op |-> "idle", pc |-> "", obj |-> 0, k |-> 0, size |-> 0, hung |-> FALSE,
             n |-> 0, error |-> ""]

\* the coroutine of a task returns or raises
returned(task, error) == [IdleTask EXCEPT !.n = task.n, !.error = error]

\* the operations started so far
ops_started == tasks["t1"].n + tasks["t2"].n

\* a task that runs no coroutine may call a method
may_start(t) == tasks[t].op = "idle" /\ ops_started < MaxOps

\* a task calls a method
started(task, op) == [IdleTask EXCEPT !.n = task.n + 1, !.op = op]

\* self.clients with each reference replaced by the object it points to
deref(cl, objs) ==
    [n \in 1..Len(cl) |-> [name |-> cl[n].name, client |-> objs[cl[n].client]]]

\* the manager's fields and the objects, as a coroutine finds them
world == [clients |-> clients, objects |-> objects, registry |-> registry,
          initialized |-> initialized]

\* what task t leaves behind when it is suspended or returns
commit(t, w, task) ==
    /\ clients' = w.clients
    /\ objects' = w.objects
    /\ registry' = w.registry
    /\ initialized' = w.initialized
    /\ tasks' = [tasks EXCEPT ![t] = task]
    /\ UNCHANGED <<input_configs, orphans, last, probe, client, held>>
    /\ UNCHANGED <<max_messages, user_memories, memories, threads>>

\* MCPClient.connect up to its first await (lines 65-74, 88-89, 96-102); both
\* callers here invoke it on a client that is not connected
connect_begin(c, transport) ==
    LET c0 == IF c.connected THEN client_disconnect(c) ELSE c
    IN  IF transport \notin {"sse", "stdio"}
        THEN [client |-> [c0 EXCEPT !.connected = FALSE], pc |-> "", error |-> "ValueError"]
        ELSE [client |-> [c0 EXCEPT !.transport_context = "created"],
              pc |-> "transport_enter", error |-> ""]

\* MCPClient.connect from the await pc, which returned (ok) or raised, up to
\* its next await or its end
connect_resume(c, pc, ok) ==
    IF ~ok
    THEN [client |-> [c EXCEPT !.connected = FALSE], pc |-> "", error |-> "ConnectionError"]
    ELSE IF pc = "transport_enter"
    THEN [client |-> [c EXCEPT !.transport_context = "open", !.session_context = "created"],
          pc |-> "session_enter", error |-> ""]
    ELSE IF pc = "session_enter"
    THEN [client |-> [c EXCEPT !.session = TRUE, !.session_context = "open"],
          pc |-> "initialize", error |-> ""]
    ELSE IF pc = "initialize"
    THEN IF ~c.session
         THEN [client |-> [c EXCEPT !.connected = FALSE], pc |-> "", error |-> "RuntimeError"]
         ELSE [client |-> c, pc |-> "list_tools", error |-> ""]
    ELSE [client |-> [c EXCEPT !.tools = TaskCatalog, !.connected = TRUE],
          pc |-> "", error |-> ""]

\* the for loop of connect_all from position k of self.configs up to the first
\* await of a connect(), or through _build_langchain_tools to the return
RECURSIVE connect_all_from(_, _, _)
connect_all_from(w, task, k) ==
    LET todo == manager_configs(input_configs)
    IN  IF k > Len(todo)
        THEN [world |-> [w EXCEPT !.registry = build_langchain_tools(
                                                   deref(w.clients, w.objects), 1),
                                  !.initialized = TRUE],
              task |-> returned(task, "")]
        ELSE LET o  == Len(w.objects) + 1
                 b  == connect_begin(new_client(todo[k]), input_configs[todo[k]].transport)
                 w1 == [w EXCEPT !.objects = Append(w.objects, b.client)]
             IN  IF b.error # ""
                 THEN connect_all_from(w1, task, k + 1)
                 ELSE [world |-> w1, task |-> [task EXCEPT !.pc = b.pc, !.obj = o, !.k = k]]

\* connect_all after the connect() of its client returned or raised
connect_all_resumed(w, task, r) ==
    LET name == input_configs[w.objects[task.obj].cfg].name
        w1   == IF r.error = ""
                THEN [w EXCEPT !.clients = dict_set(w.clients, name, task.obj)]
                ELSE w
    IN  connect_all_from(w1, task, task.k + 1)

\* call_tool after its reconnect, or from line 209 when none was needed:
\* MCPClient.call_tool up to the await of session.call_tool
call_tool_resumed(w, task, r) ==
    IF reconnect_raised(r)
    THEN [world |-> w, task |-> returned(task, "ServerUnavailable")]
    ELSE IF ~w.objects[task.obj].session
    THEN [world |-> w, task |-> returned(task, "NotConnected")]
    ELSE [world |-> w, task |-> [task EXCEPT !.pc = "request"]]

\* the end of MCPClient.disconnect: its finally block
disconnect_finally(c) == [c EXCEPT !.session_context = "none", !.transport_context = "none"]

\* MCPClient.disconnect of a connected client up to its first await
disconnect_begin(c) ==
    LET c1 == [c EXCEPT !.connected = FALSE, !.session = FALSE]
    IN  IF c1.session_context # "none"
        THEN [client |-> c1, pc |-> "session_exit"]
        ELSE IF c1.transport_context # "none"
        THEN [client |-> c1, pc |-> "transport_exit"]
        ELSE [client |-> disconnect_finally(c1), pc |-> ""]

\* MCPClient.disconnect from the __aexit__ at pc, which returned or raised (the
\* exception is swallowed), up to its next await or its end
disconnect_resume(c, pc) ==
    IF pc = "session_exit" /\ c.transport_context # "none"
    THEN [client |-> c, pc |-> "transport_exit"]
    ELSE [client |-> disconnect_finally(c), pc |-> ""]

\* the for loop of disconnect_all from position k of self.clients.values() up to
\* the first await of a disconnect(), or through the clear() calls to the
\* return; the iterator raises when the dict changed size since it was created
RECURSIVE disconnect_all_from(_, _, _)
disconnect_all_from(w, task, k) ==
    IF Len(w.clients) # task.size
    THEN [world |-> w, task |-> returned(task, "RuntimeError")]
    ELSE IF k > Len(w.clients)
    THEN [world |-> [w EXCEPT !.clients = <<>>, !.registry = <<>>, !.initialized = FALSE],
          task |-> returned(task, "")]
    ELSE LET o == w.clients[k].client
             c == w.objects[o]
         IN  IF ~c.connected
             THEN disconnect_all_from(w, task, k + 1)
             ELSE LET b  == disconnect_begin(c)
                      w1 == [w EXCEPT !.objects[o] = b.client]
                  IN  IF b.pc = ""
                      THEN disconnect_all_from(w1, task, k + 1)
                      ELSE [world |-> w1,
                            task |-> [task EXCEPT !.pc = b.pc, !.obj = o, !.k = k]]

\* a task calls MCPToolManager.connect_all
task_connect_all(t) ==
    /\ may_start(t)
    /\ LET task == started(tasks[t], "connect_all")
       IN  IF connect_all_returns_early(initialized)
           THEN commit(t, world, returned(task, ""))
           ELSE LET r == connect_all_from(world, task, 1)
                IN  commit(t, r.world, r.task)

\* a task calls MCPToolManager.get_langchain_tools, which has no await
task_get_langchain_tools(t) ==
    /\ may_start(t)
    /\ LET task == started(tasks[t], "get_langchain_tools")
       IN  commit(t, world, returned(task, IF get_langchain_tools_raises(initialized)
                                           THEN "NotInitialized" ELSE ""))

\* a task calls MCPToolManager.call_tool
task_call_tool(t) ==
    /\ may_start(t)
    /\ \E tool_name \in TaskNames :
         LET task == started(tasks[t], "call_tool")
         IN  IF name_is_invalid(tool_name)
             THEN commit(t, world, returned(task, "InvalidName"))
             ELSE LET server_name == split_first(tool_name)[1]
                  IN  IF server_not_found(clients, server_name)
                      THEN commit(t, world, returned(task, "ServerNotFound"))
                      ELSE LET o   == dict_get(clients, server_name)
                               c   == objects[o]
                               own == [task EXCEPT !.obj = o]
                           IN  IF needs_reconnect(c)
                               THEN LET b  == connect_begin(c, input_configs[c.cfg].transport)
                                        w1 == [world EXCEPT !.objects[o] = b.client]
                                    IN  IF b.error # ""
                                        THEN LET r == call_tool_resumed(w1, own, b)
                                             IN  commit(t, r.world, r.task)
                                        ELSE commit(t, w1, [own EXCEPT !.pc = b.pc])
                               ELSE LET r == call_tool_resumed(world, own, [error |-> ""])
                                    IN  commit(t, r.world, r.task)

\* a task calls MCPToolManager.disconnect_all
task_disconnect_all(t) ==
    /\ may_start(t)
    /\ LET task == [started(tasks[t], "disconnect_all") EXCEPT !.size = Len(clients)]
           r    == disconnect_all_from(world, task, 1)
       IN  commit(t, r.world, r.task)

\* the server a suspended task awaits will never respond: nothing in the code
\* resumes the task
never_resumed(t) ==
    commit(t, world, [tasks[t] EXCEPT !.hung = TRUE])

\* the event loop resumes a task suspended inside MCPClient.connect
connect_resumes(t) ==
    /\ tasks[t].pc \in {"transport_enter", "session_enter", "initialize", "list_tools"}
    /\ ~tasks[t].hung
    /\ \E out \in AwaitOutcomes :
         IF out = "never"
         THEN never_resumed(t)
         ELSE LET task == tasks[t]
                  r    == connect_resume(objects[task.obj], task.pc, out = "ok")
                  w1   == [world EXCEPT !.objects[task.obj] = r.client]
              IN  IF r.pc # ""
                  THEN commit(t, w1, [task EXCEPT !.pc = r.pc])
                  ELSE LET done == [task EXCEPT !.pc = ""]
                           n    == IF task.op = "connect_all"
                                   THEN connect_all_resumed(w1, done, r)
                                   ELSE call_tool_resumed(w1, done, r)
                       IN  commit(t, n.world, n.task)

\* the event loop resumes a task suspended at session.call_tool (lines 126-146)
call_resumes(t) ==
    /\ tasks[t].pc = "request"
    /\ ~tasks[t].hung
    /\ \E out \in AwaitOutcomes :
         IF out = "never"
         THEN never_resumed(t)
         ELSE LET task == tasks[t]
                  c    == objects[task.obj]
              IN  IF out = "ok"
                  THEN commit(t, world, returned(task, ""))
                  ELSE commit(t, [world EXCEPT !.objects[task.obj] =
                                     [c EXCEPT !.connected = FALSE, !.session = FALSE]],
                              returned(task, "ServerDisconnected"))

\* the event loop resumes a task suspended inside MCPClient.disconnect
disconnect_resumes(t) ==
    /\ tasks[t].pc \in {"session_exit", "transport_exit"}
    /\ LET task == tasks[t]
           r    == disconnect_resume(objects[task.obj], task.pc)
           w1   == [world EXCEPT !.objects[task.obj] = r.client]
       IN  IF r.pc # ""
           THEN commit(t, w1, [task EXCEPT !.pc = r.pc])
           ELSE LET n == disconnect_all_from(w1, [task EXCEPT !.pc = ""], task.k + 1)
                IN  commit(t, n.world, n.task)

\* a manager of two servers and the tasks that share it
InitTasks ==
    /\ max_messages = 0
    /\ user_memories = <<>>
    /\ memories = <<>>
    /\ threads = <<>>
    /\ held = NoList
    /\ objects = <<>>
    /\ tasks = [t \in Tasks |-> IdleTask]
    /\ input_configs = TaskConfigs
    /\ clients = <<>>
    /\ registry = <<>>
    /\ initialized = FALSE
    /\ orphans = {}
    /\ last = NoCall
    /\ probe = NoProbe
    /\ client = new_client(0)

NextTasks ==
    \E t \in Tasks :
       \/ task_connect_all(t)
       \/ task_get_langchain_tools(t)
       \/ task_call_tool(t)
       \/ task_disconnect_all(t)
       \/ connect_resumes(t)
       \/ call_resumes(t)
       \/ disconnect_resumes(t)

SpecTasks == InitTasks /\ [][NextTasks]_vars

----------------------------------------------------------------------------
(* MCPLangChainTool: a registry entry invoked through its own _arun *)

\* the lists the manager whose tools are invoked is constructed from
ToolConfigLists == {<<CfgA>>}

\* what _arun returns for the result of MCPClient.call_tool: json.dumps of a
\* list, str() of anything else, a fixed sentence for None
arun_return(result) ==
    IF result.kind = "list"
    THEN [kind |-> "json", items |-> result.items]
    ELSE IF result.kind = "None"
    THEN [kind |-> "str", items |-> <<"Tool executed successfully">>]
    ELSE [kind |-> "str", items |-> result.items]

\* the server behaviour one _arun on client c consumes
arun_inputs(c) ==
    IF c.session THEN CallOutcomes ELSE {[fail |-> TRUE, content |-> <<>>]}

\* MCPLangChainTool._arun of an entry of the manager's _langchain_tools: the
\* call goes to the entry's mcp_client, every exception becomes a ToolException
MCPLangChainTool_arun ==
    \E n \in 1..Len(registry), arguments \in Arguments :
       LET tool == registry[n]
           c    == dict_get(clients, tool.mcp_client)
       IN  \E rout \in arun_inputs(c) :
             LET rr == client_call_tool(c, tool.mcp_client, rout)
                 t2 == <<call_entry("call_tool", c.cfg, tool.mcp_client, tool.mcp_tool_name,
                                    arguments, rr.error, rr.result)>>
                 t3 == IF rr.sent
                       THEN <<call_entry("send", c.cfg, tool.mcp_client, tool.mcp_tool_name,
                                         arguments, rr.error, rr.result)>>
                       ELSE <<>>
             IN  /\ clients' = dict_set(clients, tool.mcp_client, rr.client)
                 /\ last' = [NoCall EXCEPT
                               !.op = "_arun", !.was_initialized = initialized,
                               !.name = tool.name, !.arguments = arguments,
                               !.error = IF rr.error # "" THEN "ToolException" ELSE "",
                               !.about = rr.about, !.cause = rr.error,
                               !.result = IF rr.error # "" THEN NoResult
                                          ELSE arun_return(rr.result),
                               !.trace = t3 \o t2]
                 /\ UNCHANGED <<max_messages, user_memories, memories, threads, held, objects, tasks, input_configs, registry, initialized,
                                orphans, probe, client>>

\* a manager not yet connected, whose tools its caller will invoke
InitTool ==
    /\ max_messages = 0
    /\ user_memories = <<>>
    /\ memories = <<>>
    /\ threads = <<>>
    /\ held = [NoList EXCEPT !.keeps = TRUE]
    /\ objects = <<>>
    /\ tasks = <<>>
    /\ input_configs \in ToolConfigLists
    /\ clients = <<>>
    /\ registry = <<>>
    /\ initialized = FALSE
    /\ orphans = {}
    /\ last = NoCall
    /\ probe = NoProbe
    /\ client = new_client(0)

NextTool ==
    \/ connect_all
    \/ get_langchain_tools
    \/ call_tool
    \/ disconnect_all
    \/ MCPLangChainTool_arun

SpecTool == InitTool /\ [][NextTool]_vars

----------------------------------------------------------------------------
(* The conversation memory: SimpleAgent and ShortTermMemoryManager *)

\* the largest window a store is constructed with, the messages a store's log
\* may reach, the messages one update_messages is given
MaxWindow == 3
MaxLog == 6
MaxGiven == 3

Users == {"u"}
Prompts == {"p", "q"}

user_message(prompt) == [role |-> "user", content |-> prompt]

\* the model's response.content for a prompt
assistant_message(prompt) == [role |-> "assistant", content |-> <<"re", prompt>>]

\* the lists update_messages is called with
GivenMessages ==
    UNION {[1..m -> {user_message("p"), [role |-> "assistant", content |-> <<"re", "p">>]}]
             : m \in 0..MaxGiven}

\* a user's entry of a store: whether the key is present, its "messages", and
\* log, every message written for the user since the key was created
NoEntry == [exists |-> FALSE, messages |-> <<>>, log |-> <<>>]

\* messages[-n:] for n >= 0: the last n elements, the whole list when n is
\* larger than its length, and the whole list when n is 0, since -0 is 0
py_last(messages, n) ==
    IF n = 0 \/ n >= Len(messages)
    THEN messages
    ELSE SubSeq(messages, Len(messages) - n + 1, Len(messages))

\* the sliding window of interact_with_model: if len(l) > max: l = l[-max:]
window(messages, max) ==
    IF Len(messages) > max THEN py_last(messages, max) ELSE messages

\* SimpleAgent.interact_with_model: state["memory"] as the node returns it, for
\* a model.invoke that returns (ok) or raises
interact_with_model(memory, prompt, ok, max) ==
    LET messages == window(memory \o <<user_message(prompt)>>, max)
        kept     == IF Len(messages) > 1 THEN SubSeq(messages, 1, Len(messages) - 1) ELSE <<>>
    IN  IF ~ok
        THEN memory
        ELSE window(kept \o <<user_message(prompt), assistant_message(prompt)>>, max)

\* SimpleAgent.interact, lines 48-58: the entry after the first locked block
interact_enter(entry) ==
    IF ~entry.exists THEN [NoEntry EXCEPT !.exists = TRUE] ELSE entry

\* SimpleAgent.interact, lines 73-76: the entry after the second locked block
interact_store(entry, memory, prompt, ok) ==
    IF entry.exists
    THEN [entry EXCEPT !.messages = memory,
                       !.log = IF ok
                               THEN @ \o <<user_message(prompt), assistant_message(prompt)>>
                               ELSE @]
    ELSE entry

\* SimpleAgent.interact by a single caller
SimpleAgent_interact ==
    \E u \in Users, prompt \in Prompts, ok \in BOOLEAN :
       LET entry  == interact_enter(user_memories[u])
           memory == interact_with_model(entry.messages, prompt, ok, max_messages)
       IN  /\ Len(entry.log) + 2 <= MaxLog
           /\ user_memories' = [user_memories EXCEPT
                                  ![u] = interact_store(entry, memory, prompt, ok)]
           /\ UNCHANGED <<max_messages, memories, threads>>
           /\ UNCHANGED mcp_vars

\* SimpleAgent.clear_user_memory
SimpleAgent_clear_user_memory ==
    \E u \in Users :
       /\ user_memories' = [user_memories EXCEPT ![u] = NoEntry]
       /\ UNCHANGED <<max_messages, memories, threads>>
       /\ UNCHANGED mcp_vars

\* ShortTermMemoryManager.get_or_create
get_or_create ==
    \E u \in Users :
       /\ memories' = [memories EXCEPT ![u] = interact_enter(@)]
       /\ UNCHANGED <<max_messages, user_memories, threads>>
       /\ UNCHANGED mcp_vars

\* ShortTermMemoryManager.update_messages
update_messages ==
    \E u \in Users, messages \in GivenMessages :
       /\ memories' = IF memories[u].exists
                      THEN [memories EXCEPT ![u].messages = py_last(messages, max_messages),
                                            ![u].log = messages]
                      ELSE memories
       /\ UNCHANGED <<max_messages, user_memories, threads>>
       /\ UNCHANGED mcp_vars

\* ShortTermMemoryManager.clear_user
clear_user ==
    \E u \in Users :
       /\ memories' = [memories EXCEPT ![u] = NoEntry]
       /\ UNCHANGED <<max_messages, user_memories, threads>>
       /\ UNCHANGED mcp_vars

\* an agent and a memory manager constructed with one window, no user yet
InitMemory ==
    /\ max_messages \in 0..MaxWindow
    /\ user_memories = [u \in Users |-> NoEntry]
    /\ memories = [u \in Users |-> NoEntry]
    /\ threads = <<>>
    /\ objects = <<>>
    /\ tasks = <<>>
    /\ held = NoList
    /\ input_configs = <<>>
    /\ clients = <<>>
    /\ registry = <<>>
    /\ initialized = FALSE
    /\ orphans = {}
    /\ last = NoCall
    /\ probe = NoProbe
    /\ client = new_client(0)

NextMemory ==
    \/ SimpleAgent_interact
    \/ SimpleAgent_clear_user_memory
    \/ get_or_create
    \/ update_messages
    \/ clear_user

SpecMemory == InitMemory /\ [][NextMemory]_vars

----------------------------------------------------------------------------
(* Threads in SimpleAgent.interact: _memory_lock is held inside each of its two
   blocks and released between them, while the model is invoked *)

\* each thread sends its own prompt
ThreadPrompts == [t1 |-> "p", t2 |-> "q"]

\* a thread calls interact and runs its first locked block (lines 48-58): it
\* leaves with a copy of the user's messages; failed records whether a model
\* call of the thread has ever raised
thread_enters(t) ==
    \E u \in Users :
       LET entry == interact_enter(user_memories[u])
       IN  /\ threads[t].pc = "idle"
           /\ Len(entry.log) + 2 <= MaxLog
           /\ user_memories' = [user_memories EXCEPT ![u] = entry]
           /\ threads' = [threads EXCEPT ![t] = [pc |-> "model", user |-> u,
                                                 memory |-> entry.messages,
                                                 failed |-> threads[t].failed]]
           /\ UNCHANGED <<max_messages, memories>>
           /\ UNCHANGED mcp_vars

\* the graph of a thread returns, its model call answered or failed, and the
\* thread runs its second locked block (lines 70-78)
thread_stores(t) ==
    \E ok \in BOOLEAN :
       LET u      == threads[t].user
           prompt == ThreadPrompts[t]
           memory == interact_with_model(threads[t].memory, prompt, ok, max_messages)
       IN  /\ threads[t].pc = "model"
           /\ user_memories' = [user_memories EXCEPT
                                  ![u] = interact_store(@, memory, prompt, ok)]
           /\ threads' = [threads EXCEPT ![t] = [pc |-> "idle", user |-> "", memory |-> <<>>,
                                                 failed |-> threads[t].failed \/ ~ok]]
           /\ UNCHANGED <<max_messages, memories>>
           /\ UNCHANGED mcp_vars

\* a thread calls clear_user_memory, one locked block
thread_clears(t) ==
    \E u \in Users :
       /\ threads[t].pc = "idle"
       /\ user_memories' = [user_memories EXCEPT ![u] = NoEntry]
       /\ UNCHANGED <<max_messages, memories, threads>>
       /\ UNCHANGED mcp_vars

\* an agent with a window of at least one message and two threads that call it
InitThreads ==
    /\ max_messages \in 1..MaxWindow
    /\ user_memories = [u \in Users |-> NoEntry]
    /\ memories = [u \in Users |-> NoEntry]
    /\ threads = [t \in DOMAIN ThreadPrompts |->
                    [pc |-> "idle", user |-> "", memory |-> <<>>, failed |-> FALSE]]
    /\ objects = <<>>
    /\ tasks = <<>>
    /\ held = NoList
    /\ input_configs = <<>>
    /\ clients = <<>>
    /\ registry = <<>>
    /\ initialized = FALSE
    /\ orphans = {}
    /\ last = NoCall
    /\ probe = NoProbe
    /\ client = new_client(0)

NextThreads ==
    \E t \in DOMAIN ThreadPrompts :
       \/ thread_enters(t)
       \/ thread_stores(t)
       \/ thread_clears(t)

SpecThreads == InitThreads /\ [][NextThreads]_vars

----------------------------------------------------------------------------
(* Properties *)

Keys(cl) == {cl[n].name : n \in 1..Len(cl)}

Connects(tr) == {k \in 1..Len(tr) : tr[k].call = "connect"}

Calls(tr) == {k \in 1..Len(tr) : tr[k].call = "call_tool"}

\* the part of a name before its first "__", and the part after it
PrefixOf(s) == SubSeq(s, 1, find_sep(s) - 1)

SuffixOf(s) == SubSeq(s, find_sep(s) + 2, Len(s))

\* a server name that holds no "__" and does not end with "_"
PlainServerName(s) == find_sep(s) = 0 /\ (s = <<>> \/ s[Len(s)] # "_")

\* C1: a connect_all that does the work attempts connect() exactly once on each
\* enabled config, in declaration order, and on no disabled one, whatever the
\* outcomes of the earlier attempts; it raises nothing, leaves the manager
\* initialized, and the keys of clients are exactly the names of the configs
\* whose connect() succeeded, each held client being a connected one created
\* from a config of that name.
C1_ConnectAllIsolatesFailures ==
    (last.op = "connect_all" /\ ~last.was_initialized) =>
        LET tr == last.trace
        IN  /\ last.error = ""
            /\ initialized
            /\ \A k \in 1..Len(tr) : tr[k].call = "connect"
            /\ \A i \in 1..Len(input_configs) :
                  Cardinality({k \in 1..Len(tr) : tr[k].cfg = i})
                     = IF input_configs[i].enabled THEN 1 ELSE 0
            /\ \A k1, k2 \in 1..Len(tr) : k1 < k2 => tr[k1].cfg < tr[k2].cfg
            /\ Keys(clients)
                  = {input_configs[tr[k].cfg].name : k \in {j \in 1..Len(tr) : tr[j].error = ""}}
            /\ \A n, m \in 1..Len(clients) : clients[n].name = clients[m].name => n = m
            /\ \A n \in 1..Len(clients) :
                  /\ clients[n].client.connected
                  /\ input_configs[clients[n].client.cfg].name = clients[n].name
                  /\ \E k \in 1..Len(tr) :
                        tr[k].cfg = clients[n].client.cfg /\ tr[k].error = ""

\* a connect_all where a connect() failed, a later one succeeded, and a config was disabled
C1_Witness ==
    /\ last.op = "connect_all" /\ ~last.was_initialized
    /\ \E i \in 1..Len(input_configs) : ~input_configs[i].enabled
    /\ \E k1, k2 \in 1..Len(last.trace) :
          k1 < k2 /\ last.trace[k1].error # "" /\ last.trace[k2].error = ""

\* C2: a call_tool that resolves a session issues exactly one connect() on it,
\* first, when the session was not connected, and none when it was; unless that
\* connect() fails, it then invokes the session's call_tool once with the part of
\* the name after the first "__" and the caller's arguments, and returns that
\* call's result, or raises its ServerDisconnected error, unchanged.
C2_LazyReconnectOnce ==
    [][ (last'.op = "call_tool"
           /\ last'.error \notin {"InvalidName", "ServerNotFound", "KeyError"}) =>
          LET server == PrefixOf(last'.name)
              c  == dict_get(clients, server)
              tr == last'.trace
          IN  /\ Cardinality(Connects(tr)) = IF c.connected THEN 0 ELSE 1
              /\ \A k \in Connects(tr) :
                    k = 1 /\ tr[k].server = server /\ tr[k].cfg = c.cfg
              /\ (c.connected \/ tr[1].error = "") =>
                    /\ Cardinality(Calls(tr)) = 1
                    /\ \A k \in Calls(tr) :
                          /\ tr[k].server = server /\ tr[k].cfg = c.cfg
                          /\ tr[k].tool = SuffixOf(last'.name)
                          /\ tr[k].arguments = last'.arguments
                          /\ last'.result = tr[k].result
                          /\ last'.error = tr[k].error
                          /\ last'.error \in {"", "ServerDisconnected"}
      ]_vars

\* a call_tool that reconnected the session, forwarded the call and returned a list
C2_Witness ==
    /\ last.op = "call_tool" /\ last.error = ""
    /\ Len(last.trace) = 3
    /\ last.trace[1].call = "connect" /\ last.trace[1].error = ""
    /\ last.trace[3].call = "call_tool" /\ last.trace[3].tool = <<"u", "_", "_", "v">>
    /\ last.result.kind = "list"

\* C3: a call_tool fails with ServerUnavailable exactly when its lazy connect()
\* raised; it then wraps that failure, has issued that one connect() and nothing
\* else (no call_tool on the session, no request, no second connect), and the
\* session is not connected afterwards.
C3_ReconnectFailureIsUnavailable ==
    last.op = "call_tool" =>
        LET tr == last.trace
            failed == \E k \in Connects(tr) : tr[k].error # ""
        IN  /\ failed <=> last.error = "ServerUnavailable"
            /\ failed =>
                  /\ Len(tr) = 1
                  /\ last.cause = tr[1].error
                  /\ last.about = tr[1].server
                  /\ dict_has(clients, tr[1].server)
                  /\ ~dict_get(clients, tr[1].server).connected

\* a call_tool whose lazy reconnect failed on the transport
C3_Witness ==
    /\ last.op = "call_tool" /\ last.error = "ServerUnavailable"
    /\ last.cause = "ConnectionError"
    /\ Len(last.trace) = 1 /\ last.trace[1].call = "connect"

\* C4: when a session's call_tool fails, the error is ServerDisconnected naming
\* the session's server, the session is not connected once the call has returned
\* and no connect() follows within the call; and a held session goes from not
\* connected to connected only in a step whose method issued a connect() on it.
C4_CallFailureDisconnects ==
    [][ LET tr == last'.trace
        IN  /\ \A k \in Calls(tr) :
                  tr[k].error # "" =>
                     /\ tr[k].error = "ServerDisconnected"
                     /\ last'.error = "ServerDisconnected"
                     /\ last'.about = tr[k].server
                     /\ ~dict_get(clients', tr[k].server).connected
                     /\ \A j \in Connects(tr) : j < k
            /\ \A n \in 1..Len(clients') :
                  (/\ dict_has(clients, clients'[n].name)
                   /\ ~dict_get(clients, clients'[n].name).connected
                   /\ clients'[n].client.connected)
                  => \E k \in Connects(tr) :
                        tr[k].server = clients'[n].name /\ tr[k].error = ""
      ]_vars

\* a call on a connected session that lost the connection
C4_Witness ==
    /\ last.op = "call_tool" /\ last.error = "ServerDisconnected"
    /\ Connects(last.trace) = {}
    /\ \E k \in Calls(last.trace) : last.trace[k].error = "ServerDisconnected"
    /\ ~dict_get(clients, last.about).connected

\* the qualified names of every tool of every held client, in the order of clients
RECURSIVE CatalogNames(_, _)
CatalogNames(cl, k) ==
    IF k > Len(cl)
    THEN <<>>
    ELSE [j \in 1..Len(cl[k].client.tools) |->
             qualified_name(cl[k].name, cl[k].client.tools[j].name)]
         \o CatalogNames(cl, k + 1)

\* C5: after a connect_all that did the work, the held clients are in config
\* declaration order and the registry names are exactly the qualified names of
\* every catalog tool of every held client, in that order.
C5_RegistryIsCatalogConcatenation ==
    (last.op = "connect_all" /\ ~last.was_initialized) =>
        /\ \A n, m \in 1..Len(clients) :
              n < m => clients[n].client.cfg < clients[m].client.cfg
        /\ [i \in 1..Len(registry) |-> registry[i].name] = CatalogNames(clients, 1)

\* a call_tool given the name of registry entry e reaches e's owning session
\* with e's unqualified tool name
ResolvesToOwner(e) ==
    (last.op = "call_tool" /\ last.name = e.name) =>
        /\ last.error \notin {"InvalidName", "ServerNotFound", "KeyError"}
        /\ Len(last.trace) > 0
        /\ \A k \in 1..Len(last.trace) :
              /\ last.trace[k].server = e.mcp_client
              /\ last.trace[k].cfg = dict_get(clients, e.mcp_client).cfg
              /\ last.trace[k].call \in {"call_tool", "send"}
                    => last.trace[k].tool = e.mcp_tool_name

\* C6 (as amended): for every registry entry whose server name holds no "__" and
\* does not end with "_", call_tool given the entry's name resolves to the
\* entry's owning session and forwards the entry's unqualified tool name, and no
\* other entry of such a server carries the same name.
C6_PlainServerNamesResolve ==
    \A i \in 1..Len(registry) :
        PlainServerName(registry[i].mcp_client) =>
            /\ ResolvesToOwner(registry[i])
            /\ \A j \in 1..Len(registry) :
                  (PlainServerName(registry[j].mcp_client)
                     /\ registry[j].name = registry[i].name)
                  => /\ registry[j].mcp_client = registry[i].mcp_client
                     /\ registry[j].mcp_tool_name = registry[i].mcp_tool_name

\* a call by the registered name of a tool whose own name holds "__"
C6_Witness ==
    /\ last.op = "call_tool" /\ last.error = ""
    /\ \E i \in 1..Len(registry) :
          /\ registry[i].name = last.name
          /\ find_sep(registry[i].mcp_tool_name) # 0
          /\ PlainServerName(registry[i].mcp_client)
          /\ \E k \in Calls(last.trace) : last.trace[k].tool = registry[i].mcp_tool_name

\* C6 (as stated): the same for every registry entry, whatever its server name
C6_EveryNameResolves ==
    \A i \in 1..Len(registry) :
        /\ ResolvesToOwner(registry[i])
        /\ \A j \in 1..Len(registry) :
              registry[j].name = registry[i].name
              => /\ registry[j].mcp_client = registry[i].mcp_client
                 /\ registry[j].mcp_tool_name = registry[i].mcp_tool_name

\* C7 (as amended): for a server name that holds no "__" and does not end with
\* "_", and any tool string, the split of server + "__" + tool is (server, tool).
C7_SplitRoundTripPlain ==
    (probe.fn = "split" /\ PlainServerName(probe.server)) =>
        probe.out = <<probe.server, probe.tool>>

\* a round trip with a tool string that itself holds "__"
C7_Witness ==
    /\ probe.fn = "split"
    /\ probe.server = <<"a">>
    /\ find_sep(probe.tool) # 0
    /\ probe.out = <<probe.server, probe.tool>>

\* C7 (as stated): the same for every server name that holds no "__"
C7_SplitRoundTrip ==
    (probe.fn = "split" /\ find_sep(probe.server) = 0) =>
        probe.out = <<probe.server, probe.tool>>

\* C8: a call_tool whose name holds "__" and whose part before the first "__" is
\* not a key of clients fails with ServerNotFound, issues no call, and changes
\* nothing of the manager or of any session.
C8_UnknownServerChangesNothing ==
    [][ (last'.op = "call_tool"
           /\ find_sep(last'.name) # 0
           /\ PrefixOf(last'.name) \notin Keys(clients)) =>
          /\ last'.error = "ServerNotFound"
          /\ last'.trace = <<>>
          /\ UNCHANGED <<max_messages, user_memories, memories, threads, held, objects, tasks, input_configs, clients, registry, initialized, orphans>>
      ]_vars

\* an unknown server named to an initialized manager that holds a session
C8_Witness ==
    /\ last.op = "call_tool" /\ last.error = "ServerNotFound"
    /\ initialized /\ clients # <<>>

\* C9: a call_tool whose name holds no "__" fails with InvalidName and issues no
\* call, in every manager state.
C9_NameWithoutSeparatorIsInvalid ==
    (last.op = "call_tool" /\ find_sep(last.name) = 0) =>
        /\ last.error = "InvalidName"
        /\ last.trace = <<>>

\* an invalid name given to a manager that was never initialized
C9_Witness ==
    /\ last.op = "call_tool" /\ last.error = "InvalidName"
    /\ ~last.was_initialized /\ ~initialized

\* C10: a connect_all on an initialized manager issues no call, raises nothing
\* and changes nothing of the manager or of any session.
C10_SecondConnectAllIsNoOp ==
    [][ (last'.op = "connect_all" /\ initialized) =>
          /\ last'.error = ""
          /\ last'.trace = <<>>
          /\ UNCHANGED <<max_messages, user_memories, memories, threads, held, objects, tasks, input_configs, clients, registry, initialized, orphans>>
      ]_vars

\* a repeated connect_all while a config is missing from clients and a held
\* session is not connected
C10_Witness ==
    /\ last.op = "connect_all" /\ last.was_initialized
    /\ \E i \in 1..Len(input_configs) :
          input_configs[i].enabled /\ input_configs[i].name \notin Keys(clients)
    /\ \E n \in 1..Len(clients) : ~clients[n].client.connected

\* the manager's own state
manager_state == <<input_configs, clients, registry, initialized, orphans>>

\* C11: the manager starts uninitialized, every connect_all leaves it
\* initialized, every disconnect_all leaves it uninitialized and no other method
\* changes that; get_langchain_tools raises NotInitialized exactly when the
\* manager is not initialized, returns the registry otherwise, and changes
\* nothing of the manager in either case.
C11_GetToolsNeedsConnectAll ==
    /\ ~initialized
    /\ [][ /\ last'.op = "connect_all" => initialized'
           /\ last'.op = "disconnect_all" => ~initialized'
           /\ last'.op \in {"call_tool", "get_langchain_tools"}
                 => initialized' = initialized
           /\ last'.op = "get_langchain_tools" =>
                 /\ UNCHANGED manager_state
                 /\ IF initialized
                    THEN last'.error = "" /\ last'.tools = registry
                    ELSE last'.error = "NotInitialized" /\ last'.tools = <<>>
         ]_vars

\* get_langchain_tools refused after a connect_all that was followed by a
\* disconnect_all (a session the manager dropped in connect_all is still around)
C11_Witness ==
    /\ last.op = "get_langchain_tools" /\ last.error = "NotInitialized"
    /\ orphans # {}

Disconnects(tr) == {k \in 1..Len(tr) : tr[k].call = "disconnect"}

Teardowns(tr) == {k \in 1..Len(tr) : tr[k].call \in {"session_exit", "transport_exit"}}

\* C12: a disconnect_all, from any state and whatever the teardown of each
\* session does, raises nothing, invokes disconnect() exactly once on every
\* session that was held, in the order of clients, and on nothing else, leaves
\* each of them not connected, and leaves clients and the registry empty and the
\* manager uninitialized.
C12_DisconnectAllClearsEverything ==
    [][ last'.op = "disconnect_all" =>
          LET tr == last'.trace
              D  == Disconnects(tr)
          IN  /\ last'.error = ""
              /\ Cardinality(D) = Len(clients)
              /\ \A n \in 1..Len(clients) :
                    \E k \in D :
                       /\ tr[k].cfg = clients[n].client.cfg
                       /\ tr[k].server = clients[n].name
                       /\ tr[k].error = ""
                       /\ Cardinality({j \in D : j < k}) = n - 1
              /\ Len(last'.dropped) = Len(clients)
              /\ \A n \in 1..Len(clients) :
                    /\ last'.dropped[n].cfg = clients[n].client.cfg
                    /\ ~last'.dropped[n].connected
              /\ clients' = <<>>
              /\ registry' = <<>>
              /\ ~initialized'
      ]_vars

\* a disconnect_all where a release of one session failed and the disconnect()
\* of a later session followed
C12_Witness ==
    /\ last.op = "disconnect_all" /\ last.was_initialized
    /\ clients = <<>> /\ ~initialized
    /\ \E k1 \in Teardowns(last.trace), k2 \in Disconnects(last.trace) :
          k1 < k2 /\ last.trace[k1].error # ""

\* C13: a disconnect_all on a manager that is not initialized (never
\* connected, or just disconnected) raises nothing, issues no call on any
\* session and leaves the manager as it was: no session held, empty registry,
\* not initialized; a manager that is not initialized holds no session and no
\* tool, and a get_langchain_tools on it raises NotInitialized.
C13_DisconnectAllIsIdempotent ==
    /\ [](~initialized => clients = <<>> /\ registry = <<>>)
    /\ [][ (last'.op = "disconnect_all" /\ ~initialized) =>
             /\ last'.error = ""
             /\ last'.trace = <<>>
             /\ UNCHANGED manager_state
             /\ clients' = <<>> /\ registry' = <<>> /\ ~initialized'
         ]_vars
    /\ [][ (last'.op = "get_langchain_tools" /\ ~initialized) =>
             last'.error = "NotInitialized"
         ]_vars

\* a disconnect_all that found the manager not initialized, after an earlier
\* connect_all (a session dropped by that connect_all is still around)
C13_Witness ==
    /\ last.op = "disconnect_all" /\ ~last.was_initialized
    /\ last.error = "" /\ last.trace = <<>>
    /\ orphans # {}
    /\ clients = <<>> /\ registry = <<>> /\ ~initialized

\* C14: no call_tool, whatever its outcome, changes the registry, the keys of
\* clients or their order, the session held under each key, or the initialized
\* flag; only the fields of the resolved session change.
C14_CallToolKeepsRegistryAndKeys ==
    [][ last'.op = "call_tool" =>
          /\ registry' = registry
          /\ initialized' = initialized
          /\ Len(clients') = Len(clients)
          /\ \A n \in 1..Len(clients) :
                /\ clients'[n].name = clients[n].name
                /\ clients'[n].client.cfg = clients[n].client.cfg
                /\ clients'[n].client # clients[n].client
                      => /\ find_sep(last'.name) # 0
                         /\ clients[n].name = PrefixOf(last'.name)
      ]_vars

\* a call_tool whose lazy reconnect succeeded and reloaded a catalog that the
\* registry does not reflect
C14_Witness ==
    /\ last.op = "call_tool" /\ initialized
    /\ \E k \in Connects(last.trace) : last.trace[k].error = ""
    /\ registry # build_langchain_tools(clients, 1)

\* the transports a client holds open after the first k calls of a method that
\* found it as before: an __aexit__ gives the transport up whether it raised or not
HeldTransports(before, tr, k) ==
    (IF before.transport_context = "open" THEN 1 ELSE 0)
    + Cardinality({j \in 1..k : tr[j].call = "transport_enter" /\ tr[j].error = ""})
    - Cardinality({j \in 1..k : tr[j].call = "transport_exit"})

\* C15: a connect() on a connected client first exits its ClientSession
\* context, then its transport context, and only then runs the steps of the new
\* connection in order (transport, ClientSession, initialize, list_tools, up to
\* the one that fails); it never holds two open transports.
C15_ConnectReleasesBeforeReopening ==
    (last.op = "connect" /\ last.before.connected) =>
        LET tr == last.trace
        IN  /\ Len(tr) >= 2
            /\ tr[1].call = "session_exit"
            /\ tr[2].call = "transport_exit"
            /\ Len(tr) <= 6
            /\ \A k \in 3..Len(tr) : tr[k].call = ConnectSteps[k - 2]
            /\ \A k \in 3..Len(tr) : tr[k].error # "" => k = Len(tr)
            /\ last.error = "" => Len(tr) = 6
            /\ Len(tr) > 2 => last.before.cfg = tr[3].cfg
            /\ \A k \in 0..Len(tr) : HeldTransports(last.before, tr, k) <= 1

\* a connect() on a connected client that went through
C15_Witness ==
    /\ last.op = "connect" /\ last.before.connected
    /\ last.error = "" /\ client.connected
    /\ Len(last.trace) = 6

\* C16: connect() raises exactly when one of its steps fails (or the transport
\* is not supported), and the client is then not connected, whether it was
\* connected before or not; it is connected when connect() returns.
C16_FailedConnectLeavesDisconnected ==
    last.op = "connect" =>
        LET tr == last.trace
            failed == \/ input_configs[client.cfg].transport \notin {"sse", "stdio"}
                      \/ \E k \in 1..Len(tr) :
                            /\ tr[k].call \in {ConnectSteps[i] : i \in 1..4}
                            /\ tr[k].error # ""
        IN  /\ failed <=> last.error # ""
            /\ last.error # "" => ~client.connected
            /\ last.error = "" => client.connected

\* a connect() on a connected client whose tool-list request failed
C16_Witness ==
    /\ last.op = "connect" /\ last.before.connected
    /\ last.error = "ConnectionError"
    /\ last.trace[Len(last.trace)].call = "list_tools"
    /\ ~client.connected

\* C17 (as amended): tools issues no call, changes nothing of the client and
\* never raises; it returns the catalog loaded by the latest successful
\* connect(), whatever failed connect(), lost call or disconnect() followed, and
\* the empty catalog on a client no connect() has succeeded on.
C17_ToolsReturnsCachedCatalog ==
    last.op = "tools" =>
        /\ last.trace = <<>>
        /\ client = last.before
        /\ last.error = ""
        /\ last.tools = IF last.loaded.ever THEN last.loaded.catalog ELSE <<>>

\* tools read on a client that is no longer connected and kept its catalog
C17_Witness ==
    /\ last.op = "tools" /\ last.loaded.ever
    /\ ~last.before.connected
    /\ last.tools = last.loaded.catalog /\ last.tools # <<>>

\* C17 (as stated): tools issues no call and changes nothing of the client; it
\* returns the catalog loaded by the latest successful connect(), and raises
\* NotConnected on a client no connect() has succeeded on.
C17_ToolsIsCachedCatalog ==
    last.op = "tools" =>
        /\ last.trace = <<>>
        /\ client = last.before
        /\ IF last.loaded.ever
           THEN last.error = "" /\ last.tools = last.loaded.catalog
           ELSE last.error = "NotConnected"

\* C18: a call_tool on a connected client that returns gives, for a response of
\* no block, None; of one block, that block's payload; of two or more, the list
\* of the payloads of all its blocks, in order.
C18_NormalizesByBlockCount ==
    (last.op = "call_tool" /\ last.before.connected /\ last.error = "") =>
        LET payloads == [i \in 1..Len(last.response) |-> last.response[i].payload]
        IN  last.result =
               CASE Len(last.response) = 0 -> [kind |-> "None", items |-> <<>>]
                 [] Len(last.response) = 1 -> [kind |-> "single", items |-> payloads]
                 [] OTHER                  -> [kind |-> "list", items |-> payloads]

\* C19: a call_tool on a client that is not connected raises and sends no
\* request.
C19_CallToolRequiresConnected ==
    (last.op = "call_tool" /\ ~last.before.connected) =>
        /\ last.error # ""
        /\ last.trace = <<>>

\* C20: disconnect() never raises and leaves the client not connected; on a
\* connected client it exits the ClientSession context and then the transport
\* context, the second whatever the first did, and keeps neither the session
\* nor a context; on a client that is not connected it issues nothing and
\* changes nothing.
C20_DisconnectReleasesInOrder ==
    last.op = "disconnect" =>
        /\ last.error = ""
        /\ ~client.connected
        /\ IF last.before.connected
           THEN /\ Len(last.trace) = 2
                /\ last.trace[1].call = "session_exit"
                /\ last.trace[2].call = "transport_exit"
                /\ ~client.session
                /\ client.session_context = "none"
                /\ client.transport_context = "none"
                /\ client.tools = last.before.tools
           ELSE /\ last.trace = <<>>
                /\ client = last.before

\* a disconnect() of a connected client whose ClientSession context failed to
\* exit, and whose transport context was exited all the same
C20_Witness ==
    /\ last.op = "disconnect" /\ last.before.connected
    /\ Len(last.trace) = 2
    /\ last.trace[1].call = "session_exit" /\ last.trace[1].error # ""
    /\ last.trace[2].call = "transport_exit"
    /\ ~client.connected

\* C24: constructing a config raises exactly when the transport is "sse" and
\* the url is left out, None or empty, or the transport is "stdio" and the
\* command is left out, None or empty; a config that is constructed keeps the
\* fields given, with timeout 30 and enabled true when they are left out.
C24_ConfigValidatedAtConstruction ==
    probe.fn = "config" =>
        LET kw == probe.kwargs
            missing(v) == v \in {Absent, None, ""}
        IN  /\ probe.out.error # "" <=>
                  \/ kw.transport = "sse" /\ missing(kw.url)
                  \/ kw.transport = "stdio" /\ missing(kw.command)
            /\ probe.out.error \in {"", "ValueError"}
            /\ probe.out.error = "" =>
                  /\ probe.out.config.transport = kw.transport
                  /\ probe.out.config.timeout
                        = IF kw.timeout.given THEN kw.timeout.v ELSE 30
                  /\ probe.out.config.enabled
                        = IF kw.enabled.given THEN kw.enabled.v ELSE TRUE

\* a "stdio" config constructed with a command, no url, and neither timeout
\* nor enabled
C24_Witness ==
    /\ probe.fn = "config" /\ probe.out.error = ""
    /\ probe.kwargs.transport = "stdio" /\ probe.kwargs.url = Absent
    /\ ~probe.kwargs.timeout.given /\ ~probe.kwargs.enabled.given
    /\ probe.out.config.timeout = 30 /\ probe.out.config.enabled

\* C25: a connect() on a client whose config was constructed without error
\* raises only when one of its steps (opening the transport, entering the
\* ClientSession, the handshake, the tool-list request) failed, never on the
\* config's own content.
C25_ConnectNeverFailsOnConfig ==
    LET cfg == input_configs[client.cfg]
    IN  (last.op = "connect" /\ post_init_error(cfg.transport, cfg.url, cfg.command) = "")
        => (last.error # "" =>
              /\ last.error = "ConnectionError"
              /\ \E k \in 1..Len(last.trace) :
                    /\ last.trace[k].call \in {ConnectSteps[i] : i \in 1..4}
                    /\ last.trace[k].error # "")

\* C26: in the model built from a schema, a property is required exactly when
\* its name is in the schema's required set; a required one is not nullable and
\* has no default, a non-required one is nullable with default None, whatever
\* its declared type and whether or not its schema declares a default.
C26_RequiredIffListed ==
    (probe.fn = "schema" /\ ~probe.out.raised) =>
        LET props == probe.schema.properties
        IN  /\ Len(probe.out.fields) = Len(props)
            /\ \A i \in 1..Len(props) :
                  LET f   == probe.out.fields[i]
                      req == props[i].name \in probe.schema.required
                  IN  /\ f.name = props[i].name
                      /\ f.required = req
                      /\ req => (~f.nullable /\ f.default = Ellipsis)
                      /\ ~req => (f.nullable /\ f.default = "None")

\* the kind the fixed table gives a declared type
TableKind(type) ==
    IF type.k # "str" THEN "str"
    ELSE CASE type.v = "string"  -> "str"
           [] type.v = "integer" -> "int"
           [] type.v = "number"  -> "float"
           [] type.v = "boolean" -> "bool"
           [] type.v = "array"   -> "list"
           [] type.v = "object"  -> "dict"
           [] OTHER              -> "str"

\* C27: the translation of a schema never raises and yields one field per
\* declared property, in the declared order, whose kind follows the fixed
\* table, an unknown or absent type and a type given as a list of names being
\* a string.
C27_TranslationIsTotal ==
    probe.fn = "schema" =>
        LET props == probe.schema.properties
        IN  /\ ~probe.out.raised
            /\ Len(probe.out.fields) = Len(props)
            /\ \A i \in 1..Len(props) :
                  /\ probe.out.fields[i].name = props[i].name
                  /\ probe.out.fields[i].kind = TableKind(props[i].schema.type)

\* a call_tool on an initialized manager whose name's part before the first
\* "__" is the name of an enabled config that clients does not hold: every
\* connect() of a config of that name failed in the connect_all
NamesFailedServer ==
    /\ last.op = "call_tool" /\ last.was_initialized
    /\ find_sep(last.name) # 0
    /\ PrefixOf(last.name) \notin Keys(clients)
    /\ \E i \in 1..Len(input_configs) :
          input_configs[i].enabled /\ input_configs[i].name = PrefixOf(last.name)

\* C28 (as amended): a call_tool that names a server whose connect() failed
\* during connect_all fails with ServerNotFound, like one that names a server
\* no config declares: it issues no connect() and no call, and the server stays
\* out of clients.
C28_FailedServerIsNotFound ==
    NamesFailedServer =>
        /\ last.error = "ServerNotFound"
        /\ last.about = PrefixOf(last.name)
        /\ last.trace = <<>>

\* a call_tool naming the configured server "a" after a connect_all in which
\* its connect() failed
C28_Witness ==
    /\ NamesFailedServer
    /\ PrefixOf(last.name) = <<"a">>
    /\ last.error = "ServerNotFound"

\* C28 (as stated): a call_tool that names a server whose connect() failed
\* during connect_all attempts one connect() on it and, when that succeeds,
\* forwards the call; it does not fail as an unknown server.
C28_FailedServerIsReconnected ==
    NamesFailedServer =>
        /\ last.error # "ServerNotFound"
        /\ Cardinality(Connects(last.trace)) = 1
        /\ (\A k \in Connects(last.trace) : last.trace[k].error = "")
              => Cardinality(Calls(last.trace)) = 1

\* C29: once disconnect() has returned, every transport channel and protocol
\* session the client opened has been released: none of its contexts is still
\* entered.
C29_DisconnectReleasesEverything ==
    last.op = "disconnect" =>
        /\ client.transport_context # "open"
        /\ client.session_context # "open"

\* C30: every connected client the manager created is a value of clients, so
\* none of the clients a later config of the same name replaced in the dict is
\* connected, and none is after disconnect_all.
C30_NoConnectedClientOutsideClients ==
    \A o \in orphans : ~o.connected

\* task t is suspended inside MCPClient.connect
InConnect(t) ==
    tasks[t].pc \in {"transport_enter", "session_enter", "initialize", "list_tools"}

\* C21: concurrent call_tool invocations on one server are serialized per
\* client: no two of them are inside connect() on the same MCPClient at once.
C21_ConnectsAreSerializedPerClient ==
    \A t, u \in Tasks :
       (/\ t # u
        /\ tasks[t].op = "call_tool" /\ tasks[u].op = "call_tool"
        /\ InConnect(t) /\ InConnect(u))
          => tasks[t].obj # tasks[u].obj

\* no task runs beside a task that is inside connect_all or disconnect_all
BarrierRunsAlone ==
    \A t, u \in Tasks :
       (t # u /\ tasks[t].op \in {"connect_all", "disconnect_all"}) => tasks[u].op = "idle"

\* no two MCPClient objects of one config are connected at once
OneConnectionPerConfig ==
    \A o, q \in 1..Len(objects) :
       (objects[o].connected /\ objects[q].connected /\ objects[o].cfg = objects[q].cfg)
          => o = q

\* once every task has returned, each connected MCPClient is a value of clients
NoConnectionOutlivesItsEntry ==
    (\A t \in Tasks : tasks[t].op = "idle")
       => \A o \in 1..Len(objects) :
             objects[o].connected => \E n \in 1..Len(clients) : clients[n].client = o

\* C22: connect_all and disconnect_all are exclusive barriers: nothing runs
\* between the start and the end of one of them, so two connect_all never both
\* connect a server and no call_tool reconnects a client disconnect_all drops.
C22_BarriersAreExclusive ==
    /\ BarrierRunsAlone
    /\ OneConnectionPerConfig
    /\ NoConnectionOutlivesItsEntry

\* C23: the config's timeout bounds every await of connect() and call_tool():
\* a task whose server never responds is resumed all the same, with the
\* timeout's error.
C23_TimeoutResumesHungTask ==
    \A t \in Tasks :
       tasks[t].hung => ENABLED (connect_resumes(t) \/ call_resumes(t))

\* C31: a registry entry invoked through its own _arun behaves like call_tool
\* with the entry's name: when its client is not connected it issues one
\* connect() before the call and does not fail because nothing is connected.
C31_ArunReconnectsLikeCallTool ==
    [][ last'.op = "_arun" =>
          LET tr == last'.trace
              c  == dict_get(clients, tr[Len(tr)].server)
          IN  ~c.connected =>
                 /\ Cardinality(Connects(tr)) = 1
                 /\ last'.cause # "NotConnected"
      ]_vars

\* C32: a list returned by get_langchain_tools is a stable snapshot: whatever
\* the manager does afterwards, the list the caller kept holds what it held
\* when it was returned.
C32_ReturnedListIsSnapshot ==
    held.ref # "none" => held.items = held.got

\* the messages of an entry are the last max of those written for the user
IsWindowOf(entry, max) ==
    /\ Len(entry.messages) <= max
    /\ \/ entry.messages = entry.log
       \/ /\ Len(entry.log) > max
          /\ entry.messages = SubSeq(entry.log, Len(entry.log) - max + 1, Len(entry.log))

\* C33: for every window the stores are constructed with, 0 and 1 included,
\* each user's stored list has at most that many messages and they are the
\* most recent ones written, in their order.
C33_MemoryIsBounded ==
    \A u \in Users :
       /\ IsWindowOf(user_memories[u], max_messages)
       /\ IsWindowOf(memories[u], max_messages)

\* C34: overlapping interact calls for one user lose no exchange: once every
\* thread has returned, and every model call answered, the user's stored list
\* is the window of all the prompt/response pairs written for the user, those
\* of both threads included.
C34_NoExchangeIsLost ==
    (\A t \in DOMAIN threads : threads[t].pc = "idle" /\ ~threads[t].failed)
       => \A u \in Users :
             user_memories[u].exists => IsWindowOf(user_memories[u], max_messages)

====
